---- MODULE Spec2Model ----
(***************************************************************************)
(* Multi-group Raft coordinator (package multiraft): the event loop of     *)
(* state.start, its handlers, the write task it hands batches to, and the  *)
(* embedded Raft / storage / application environment it talks to.          *)
(*                                                                         *)
(* Every loop turn is one action.  The variable effects holds, in program  *)
(* order, what the action of the current step did to the outside world     *)
(* (events put on Events, messages handed to the transport, values written *)
(* to completion channels, calls into the embedded Raft).                  *)
(***************************************************************************)
EXTENDS Integers, Sequences, FiniteSets, TLC

\* ---------------------------------------------------------------- bounds
MaxNode == 3
MaxGroup == 2
MaxTerm == 2
MaxIndex == 2
MaxProps == 1
MaxBatchItems == 2
MaxPropBatchItems == 1
ChanCap == 2
OpChanCap == 1
MaxCallbacks == 1
EventsCap == 2
MaxTasks == 3
MaxWorkers == 1
MaxClosers == 2
MaxConfigTicks == 1
MaxRanges == 2
MaxScans == 2
MaxWaiters == 1
MaxRemoved == 1

\* ------------------------------------------------- configuration, ids
Self == 1
\* the buffer of a completion channel, make(chan error, 1)
ChanBuf == 1
HeartbeatIntervalTicks == 2
\* math.MaxUint64, the group id of a coalesced heartbeat; TLC integers are
\* 32 bits wide, so the sentinel is the largest id TLC represents.
MaxUint64 == 2147483647

NodeIds == 1..MaxNode
GroupIds == 1..MaxGroup
CommandIds == {"a"}
NoSoft == -1

MsgHeartbeat == "MsgHeartbeat"
MsgHeartbeatResp == "MsgHeartbeatResp"
MsgApp == "MsgApp"
MsgSnap == "MsgSnap"

EntryNormal == "EntryNormal"
ConfChangeAddNode == "ConfChangeAddNode"
ConfChangeRemoveNode == "ConfChangeRemoveNode"
ConfChangeUpdateNode == "ConfChangeUpdateNode"

VARIABLES
  groups,          \* state.groups: group id -> [committedTerm, leader, pending]
  nodes,           \* state.nodes: node id -> set of group ids
  readyGroups,     \* loop local: <<>> (nil) or <<batch>>
  writingGroups,   \* loop local: <<>> (nil) or <<batch>>
  ticks,           \* loop local tick counter
  loop,
  Events,          \* MultiRaft.Events: [tracked, q]; q is the queue when the
                   \* application's consumption is followed (tracked), else every
                   \* event counts as consumed at once and q stays empty
  newMultiRaftCall,\* the NewMultiRaft call that made the coordinator: its
                   \* arguments and, once it has returned, what it returned
  stopper,         \* the util.Stopper: its fields stopper, stopped (channels),
                   \* stop, drain (WaitGroup counters), mu, draining, and the
                   \* position of the Stop() call and of each StartTask() caller
  scanner,         \* the storage rangeScanner: the position of its worker and of
                   \* its iterator, count, the stats (published and of the pass
                   \* under way), the ranges in the queues, the removed channel
                   \* and the callers of WaitForScanCompletion
  history,         \* for the groups whose history is recorded: whether a RemoveGroup
                   \* call has reported success (removed), the highest entry index
                   \* an event has reported (ever) and the highest since the group
                   \* was last created (inc)
            \* "running", "blocked" (stuck in a channel send), "panicked"
  createGroupChan, \* queue of group ids
  removeGroupChan, \* queue of group ids
  proposalChan,    \* queue of proposal ids (pointers to proposal objects)
  callbackChan,    \* queue of thunks posted by membership-change callbacks
  props,           \* proposal objects: id -> [groupID, commandID, ch]
  chWrites,        \* proposal id -> number of values written to its channel
  callbacks,       \* Callback closures handed to the application, not yet invoked
  wtIn,            \* writeTask.in:  <<>> or <<request>>
  wtOut,           \* writeTask.out: <<>> or <<response>>
  hardState,       \* storage: group id -> commit index of the durable HardState
  confState,       \* storage: group id -> ConfState.Nodes of InitialState
  raftIndex,       \* embedded Raft: group id -> index of last committed entry delivered
  raftTerm,        \* embedded Raft: group id -> term of that entry
  raftBusy,        \* embedded Raft: batches read for which Advance was not yet called
  effects          \* what the action of this step did, in program order

coordVars == <<groups, nodes, readyGroups, writingGroups, ticks, loop, Events, history, stopper, scanner, newMultiRaftCall>>
chanVars == <<createGroupChan, removeGroupChan, proposalChan, callbackChan>>
propVars == <<props, chWrites, callbacks>>
writeVars == <<wtIn, wtOut, hardState, confState>>
raftVars == <<raftIndex, raftTerm, raftBusy>>
vars == <<coordVars, chanVars, propVars, writeVars, raftVars, effects>>

\* ---------------------------------------------------------------- helpers
Perms(S) == {s \in [1..Cardinality(S) -> S] : \A i, j \in 1..Cardinality(S) : i # j => s[i] # s[j]}

\* the elements of set S in the order they have in the sequence order
RECURSIVE InOrder(_, _)
InOrder(order, S) ==
  IF order = <<>> THEN <<>>
  ELSE IF Head(order) \in S THEN <<Head(order)>> \o InOrder(Tail(order), S)
  ELSE InOrder(Tail(order), S)

Max(a, b) == IF a >= b THEN a ELSE b

\* one effect of a loop turn
Eff(k, g, n, x, t) == [k |-> k, g |-> g, n |-> n, x |-> x, t |-> t]


\* node.registerGroup / node.unregisterGroup
registerGroup(n, groupID) == n \cup {groupID}

unregisterGroup(n, groupID) == n \ {groupID}

\* Go maps are functions with a finite domain
EmptyMap == [x \in {} |-> 0]

Put(f, k, v) == [x \in DOMAIN f \cup {k} |-> IF x = k THEN v ELSE f[x]]

Del(f, k) == [x \in DOMAIN f \ {k} |-> f[x]]

\* &group{pending: map[string]*proposal{}}
newGroup == [committedTerm |-> 0, leader |-> 0, pending |-> EmptyMap]

\* &node{groupIDs: make(map[uint64]struct{})}; a node is its set of group ids
newNode == {}

\* ------------------------------------------------------ embedded Raft
\* An environment env bounds what the embedded Raft and the network feed
\* the coordinator: env.groups (the groups that get batches), env.bodies
\* (what a committed entry can be), env.softs (SoftState leaders, NoSoft for
\* no SoftState), env.msgs (outbound messages), env.snaps (snapshots).
Body(t, c, n) == [type |-> t, cid |-> c, node |-> n]

Entry(i, t, b) == [index |-> i, term |-> t, type |-> b.type, cid |-> b.cid, node |-> b.node]

Msg(t, to) == [type |-> t, to |-> to]

\* The committed entries Raft can deliver next: k entries with consecutive
\* indexes after index idx, terms non-decreasing and at least term.
RECURSIVE EntrySeqs(_, _, _, _)
EntrySeqs(env, idx, term, k) ==
  IF k = 0 THEN {<<>>}
  ELSE IF idx >= MaxIndex THEN {}
  ELSE UNION {{<<Entry(idx + 1, t, b)>> \o rest : rest \in EntrySeqs(env, idx + 1, t, k - 1)} :
               t \in Max(term, 1)..MaxTerm, b \in env.bodies}

RECURSIVE MsgSeqs(_, _)
MsgSeqs(env, k) ==
  IF k = 0 THEN {<<>>}
  ELSE {<<m>> \o rest : m \in env.msgs, rest \in MsgSeqs(env, k - 1)}

\* raft.Ready values for group g with w updates in all: a SoftState, a
\* snapshot, committed entries, messages (Ready.containsUpdates: w > 0);
\* commit is the commit index of the Ready's HardState
ReadyOf(env, g, w) ==
  UNION {UNION {UNION {
    [soft : IF s = 1 THEN env.softs ELSE {NoSoft},
     snap : IF n = 1 THEN env.snaps ELSE {<<>>},
     committed : EntrySeqs(env, raftIndex[g], raftTerm[g], c),
     commit : {raftIndex[g] + c},
     msgs : MsgSeqs(env, w - s - n - c)] :
    c \in 0..(w - s - n)} : n \in 0..(IF w - s >= 1 THEN 1 ELSE 0)} : s \in 0..(IF w >= 1 THEN 1 ELSE 0)}

\* the batches multiNode.Ready() can deliver for exactly the groups gs with
\* at most w updates in all
RECURSIVE BatchesOver(_, _, _)
BatchesOver(env, gs, w) ==
  IF gs = {} THEN {EmptyMap}
  ELSE LET g == CHOOSE x \in gs : TRUE
       IN UNION {{Put(rest, g, r) : r \in ReadyOf(env, g, k), rest \in BatchesOver(env, gs \ {g}, w - k)} :
                  k \in 1..w}

\* the membership changes a batch commits
ConfChanges(batch) ==
  {<<g, i>> \in GroupIds \X (1..MaxBatchItems) :
     g \in DOMAIN batch /\ i <= Len(batch[g].committed) /\ batch[g].committed[i].type # EntryNormal}

\* membership changes committed and not yet applied through their Callback
Outstanding == Cardinality(callbacks) + Len(callbackChan)

Batches(env) ==
  {b \in UNION {BatchesOver(env, gs, env.weight) : gs \in SUBSET (DOMAIN groups \cap env.groups) \ {{}}} :
     Cardinality(ConfChanges(b)) + Outstanding <= MaxCallbacks}

\* ------------------------------------------------- handlers of the loop
\* The handlers work on a record st of the state they read and write:
\* groups, nodes, props, chWrites, proposalChan, callbacks, raftIndex,
\* raftTerm, loop, and eff, the effects of the turn so far.
Emit(st, e) == [st EXCEPT !.eff = Append(@, e)]

\* MultiRaft.sendEvent
\* sendEvent that gives the event up when the queue is full
sendEventDropping(st, e) ==
  IF ~st.Events.tracked THEN Emit(st, e)
  ELSE IF Len(st.Events.q) < EventsCap
  THEN Emit([st EXCEPT !.Events.q = Append(@, e)], e)
  ELSE st

sendEvent(st, e) ==
  IF ~st.Events.tracked THEN Emit(st, e)
  ELSE IF Len(st.Events.q) < EventsCap
  THEN Emit([st EXCEPT !.Events.q = Append(@, e)], e)
  ELSE Emit([st EXCEPT !.loop = "panicked"],
            Eff("panic", e.g, 0, "MultiRaft.Events backlog reached limit", 0))

\* s.proposalChan <- prop for each proposal of ps, in order; the send blocks
\* for good when the channel is full, the loop being its only receiver
RECURSIVE resubmit(_, _)
resubmit(st, ps) ==
  IF ps = <<>> \/ st.loop # "running" THEN st
  ELSE IF Len(st.proposalChan) >= ChanCap THEN [st EXCEPT !.loop = "blocked"]
  ELSE resubmit([st EXCEPT !.proposalChan = Append(@, Head(ps))], Tail(ps))

\* the values of a pending map in the iteration order given by cidOrder
PendingInOrder(pending, cidOrder) ==
  LET ks == InOrder(cidOrder, DOMAIN pending)
  IN [i \in 1..Len(ks) |-> pending[ks[i]]]

\* p.ch <- val on the completion channel of proposal p, make(chan error, 1):
\* the caller takes one value off it, so the first write is taken, the
\* second stays in the buffer and a third blocks the loop
signal(st, p, val) ==
  IF st.chWrites[p] > ChanBuf THEN [st EXCEPT !.loop = "blocked"]
  ELSE Emit([st EXCEPT !.chWrites[p] = @ + 1], Eff("signal", st.props[p].groupID, p, val, 0))

\* state.addNode
addNodeErr(st, nodeID, groupID) == groupID \notin DOMAIN st.groups

addNode(st, nodeID, groupID) ==
  IF addNodeErr(st, nodeID, groupID) THEN st
  ELSE LET cur == IF nodeID \in DOMAIN st.nodes THEN st.nodes[nodeID] ELSE newNode
       IN [st EXCEPT !.nodes = Put(@, nodeID, registerGroup(cur, groupID))]

RECURSIVE addNodes(_, _, _)
addNodes(st, ns, groupID) ==
  IF ns = {} THEN st
  ELSE LET n == CHOOSE x \in ns : TRUE
       IN addNodes(addNode(st, n, groupID), ns \ {n}, groupID)

\* state.createGroup; init is what Storage.InitialState returns, inPipe the
\* groups of the batch the loop holds.  The new embedded group replays the
\* committed log from the applied index (0 without a StateMachine) unless a
\* held batch of the previous incarnation will be passed to Advance.
createGroupErr(st, groupID, init) == groupID \notin DOMAIN st.groups /\ ~init.ok

\* variant: createGroup without the early return for a known group
createGroupAlways(st, groupID, init, inPipe) ==
  IF ~init.ok THEN st
  ELSE LET s1 == Emit(st, Eff("raftCreateGroup", groupID, 0, "", 0))
           s2 == [s1 EXCEPT !.groups = Put(@, groupID, newGroup),
                            !.raftIndex[groupID] = IF groupID \in inPipe THEN @ ELSE 0,
                            !.raftTerm[groupID] = IF groupID \in inPipe THEN @ ELSE 0]
           s3 == addNodes(s2, init.nodes, groupID)
       IN IF init.nodes = {Self}
          THEN Emit(s3, Eff("campaign", groupID, 0, "", 0))
          ELSE s3

\* variant: the group campaigns whenever the local node is a member
createGroupEager(st, groupID, init, inPipe) ==
  IF groupID \in DOMAIN st.groups THEN st
  ELSE IF ~init.ok THEN st
  ELSE LET s1 == Emit(st, Eff("raftCreateGroup", groupID, 0, "", 0))
           s2 == [s1 EXCEPT !.groups = Put(@, groupID, newGroup),
                            !.raftIndex[groupID] = IF groupID \in inPipe THEN @ ELSE 0,
                            !.raftTerm[groupID] = IF groupID \in inPipe THEN @ ELSE 0]
           s3 == addNodes(s2, init.nodes, groupID)
       IN IF Self \in init.nodes
          THEN Emit(s3, Eff("campaign", groupID, 0, "", 0))
          ELSE s3

\* state.createGroup
createGroup(st, groupID, init, inPipe) ==
  IF groupID \in DOMAIN st.groups THEN st
  ELSE IF ~init.ok THEN st
  ELSE LET s1 == Emit(st, Eff("raftCreateGroup", groupID, 0, "", 0))
           s2 == [s1 EXCEPT !.groups = Put(@, groupID, newGroup),
                            !.raftIndex[groupID] = IF groupID \in inPipe THEN @ ELSE 0,
                            !.raftTerm[groupID] = IF groupID \in inPipe THEN @ ELSE 0]
           s3 == addNodes(s2, init.nodes, groupID)
       IN IF init.nodes = {Self}
          THEN Emit(s3, Eff("campaign", groupID, 0, "", 0))
          ELSE s3

\* variant: the thunk also runs for a proposal whose group is missing
proposeAlwaysRuns(st, p, fnErr) ==
  LET groupID == st.props[p].groupID
      s1 == IF groupID \notin DOMAIN st.groups
            THEN IF st.props[p].ch THEN signal(st, p, "error") ELSE st
            ELSE [st EXCEPT !.groups[groupID].pending = Put(@, st.props[p].commandID, p)]
  IN Emit(s1, Eff("fn", groupID, p, st.props[p].commandID, IF fnErr THEN 1 ELSE 0))

\* state.propose; fnErr says whether the embedded propose inside p.fn fails
\* (the thunk logs the error and returns nothing)
propose(st, p, fnErr) ==
  LET groupID == st.props[p].groupID
  IN IF groupID \notin DOMAIN st.groups
     THEN IF st.props[p].ch
          THEN signal(st, p, "error")
          ELSE st
     ELSE Emit([st EXCEPT !.groups[groupID].pending = Put(@, st.props[p].commandID, p)],
               Eff("fn", groupID, p, st.props[p].commandID, IF fnErr THEN 1 ELSE 0))

\* A Callback closure of EventMembershipChangeCommitted captures the group
\* object g: obj is <<>> while that object is the one in the group table and
\* <<pending>> once removeGroup has deleted it from the table.
Closure(groupID, entry) == [g |-> groupID, type |-> entry.type, node |-> entry.node, obj |-> <<>>]

Detach(c, groupID, pending) ==
  IF c.g = groupID /\ c.obj = <<>> THEN [c EXCEPT !.obj = <<pending>>] ELSE c

\* variant: removeGroup reporting an error for a group it does not know
removeGroupStrict(st, groupID, rmOk, init) ==
  IF groupID \notin DOMAIN st.groups
  THEN Emit(st, Eff("removeOp", groupID, 0, "error", 0))
  ELSE IF ~rmOk THEN Emit(st, Eff("removeOp", groupID, 0, "error", 0))
  ELSE LET s1 == Emit(st, Eff("raftRemoveGroup", groupID, 0, "", 0))
           s2 == IF init.ok THEN s1 ELSE Emit(s1, Eff("removeOp", groupID, 0, "error", 0))
           cs == IF init.ok THEN init.nodes ELSE {}
           pend == st.groups[groupID].pending
       IN IF ~(cs \subseteq DOMAIN s2.nodes) THEN [s2 EXCEPT !.loop = "panicked"]
          ELSE Emit([s2 EXCEPT
                 !.nodes = [n \in DOMAIN @ |-> IF n \in cs THEN unregisterGroup(@[n], groupID) ELSE @[n]],
                 !.groups = Del(@, groupID),
                 !.callbacks = {Detach(c, groupID, pend) : c \in @},
                 !.callbackChan = [i \in DOMAIN @ |-> Detach(@[i], groupID, pend)]],
               Eff("removeOp", groupID, 0, "nil", 0))

\* state.removeGroup; rmOk is the outcome of multiNode.RemoveGroup, init
\* what Storage.InitialState returns (a zero ConfState with an error)
removeGroup(st, groupID, rmOk, init) ==
  IF groupID \notin DOMAIN st.groups
  THEN Emit(st, Eff("removeOp", groupID, 0, "nil", 0))
  ELSE IF ~rmOk THEN Emit(st, Eff("removeOp", groupID, 0, "error", 0))
  ELSE LET s1 == Emit(st, Eff("raftRemoveGroup", groupID, 0, "", 0))
           s2 == IF init.ok THEN s1 ELSE Emit(s1, Eff("removeOp", groupID, 0, "error", 0))
           cs == IF init.ok THEN init.nodes ELSE {}
           pend == st.groups[groupID].pending
       IN IF ~(cs \subseteq DOMAIN s2.nodes) THEN [s2 EXCEPT !.loop = "panicked"]
          ELSE Emit([s2 EXCEPT
                 !.nodes = [n \in DOMAIN @ |-> IF n \in cs THEN unregisterGroup(@[n], groupID) ELSE @[n]],
                 !.groups = Del(@, groupID),
                 !.callbacks = {Detach(c, groupID, pend) : c \in @},
                 !.callbackChan = [i \in DOMAIN @ |-> Detach(@[i], groupID, pend)]],
               Eff("removeOp", groupID, 0, "nil", 0))

\* variant: an event is sent for an entry without data too
processCommittedEntryNilData(st, groupID, entry) ==
  IF entry.type = EntryNormal
  THEN sendEvent(st, Eff("event", groupID, entry.index, "CommandCommitted", entry.term))
  ELSE LET s1 == sendEvent(st, Eff("event", groupID, entry.index, "MembershipChangeCommitted", entry.term))
       IN IF s1.loop # "running" THEN s1
          ELSE [s1 EXCEPT !.callbacks = @ \cup {Closure(groupID, entry)}]

\* state.processCommittedEntry; the command id it returns is entry.cid
processCommittedEntry(st, groupID, entry) ==
  IF entry.type = EntryNormal
  THEN IF entry.cid # ""
       THEN sendEvent(st, Eff("event", groupID, entry.index, "CommandCommitted", entry.term))
       ELSE st
  ELSE LET s1 == sendEvent(st, Eff("event", groupID, entry.index, "MembershipChangeCommitted", entry.term))
       IN IF s1.loop # "running" THEN s1
          ELSE [s1 EXCEPT !.callbacks = @ \cup {Closure(groupID, entry)}]

\* the body of the loop over ready.CommittedEntries in handleWriteResponse
finishEntry(st, groupID, entry) ==
  LET s1 == processCommittedEntry(st, groupID, entry)
      pending == s1.groups[groupID].pending
  IN IF s1.loop # "running" THEN s1
     ELSE IF entry.cid \in DOMAIN pending
     THEN LET p == pending[entry.cid]
              s2 == IF s1.props[p].ch
                    THEN IF signal(s1, p, "nil").loop # "running" THEN signal(s1, p, "nil")
                         ELSE [signal(s1, p, "nil") EXCEPT !.props[p].ch = FALSE]
                    ELSE s1
          IN IF s2.loop # "running" THEN s2
             ELSE [s2 EXCEPT !.groups[groupID].pending = Del(@, entry.cid)]
     ELSE s1

RECURSIVE processEntries(_, _, _)
processEntries(st, groupID, entries) ==
  IF entries = <<>> \/ st.loop # "running" THEN st
  ELSE processEntries(finishEntry(st, groupID, Head(entries)), groupID, Tail(entries))

\* variant: a batch without committed entries counts as term 0
readyTermZero(g, ready) ==
  IF Len(ready.committed) > 0 THEN ready.committed[Len(ready.committed)].term
  ELSE 0

\* the term maybeSendLeaderEvent compares with g.committedTerm
readyTerm(g, ready) ==
  IF Len(ready.committed) > 0 THEN ready.committed[Len(ready.committed)].term
  ELSE g.committedTerm

\* variant: the event is sent for every batch once the leader is known
maybeSendLeaderEventAlways(st, groupID, ready, cidOrder) ==
  LET g == st.groups[groupID]
      leader == IF ready.soft # NoSoft THEN ready.soft ELSE g.leader
      term == readyTerm(g, ready)
      s1 == [st EXCEPT !.groups[groupID].leader = leader]
  IN IF leader # 0
     THEN resubmit(sendEvent([s1 EXCEPT !.groups[groupID].committedTerm = term],
                             Eff("event", groupID, leader, "LeaderElection", term)),
                   PendingInOrder(g.pending, cidOrder))
     ELSE s1

\* state.maybeSendLeaderEvent
maybeSendLeaderEvent(st, groupID, ready, cidOrder) ==
  LET g == st.groups[groupID]
      leader == IF ready.soft # NoSoft THEN ready.soft ELSE g.leader
      term == readyTerm(g, ready)
      s1 == [st EXCEPT !.groups[groupID].leader = leader]
  IN IF term # g.committedTerm /\ leader # 0
     THEN resubmit(sendEvent([s1 EXCEPT !.groups[groupID].committedTerm = term],
                             Eff("event", groupID, leader, "LeaderElection", term)),
                   PendingInOrder(g.pending, cidOrder))
     ELSE s1

\* variant: a snapshot is reported as finished whatever Send returned
sendMessageSnapshotFinish(st, groupID, msg, sendFails) ==
  LET s1 == IF msg.to \notin DOMAIN st.nodes THEN addNode(st, msg.to, groupID) ELSE st
      s2 == Emit(s1, Eff("send", groupID, msg.to, msg.type, 0))
      s3 == IF msg.to \in sendFails
            THEN Emit(s2, Eff("reportUnreachable", groupID, msg.to, "", 0))
            ELSE s2
  IN IF msg.type = MsgSnap
     THEN Emit(s3, Eff("reportSnapshot", groupID, msg.to, "SnapshotFinish", 0))
     ELSE s3

\* state.sendMessage; sendFails are the peers Transport.Send fails for
sendMessage(st, groupID, msg, sendFails) ==
  LET s1 == IF msg.to \notin DOMAIN st.nodes THEN addNode(st, msg.to, groupID) ELSE st
      s2 == Emit(s1, Eff("send", groupID, msg.to, msg.type, 0))
      s3 == IF msg.to \in sendFails
            THEN Emit(s2, Eff("reportUnreachable", groupID, msg.to, "", 0))
            ELSE s2
  IN IF msg.type = MsgSnap
     THEN Emit(s3, Eff("reportSnapshot", groupID, msg.to,
                       IF msg.to \in sendFails THEN "SnapshotFailure" ELSE "SnapshotFinish", 0))
     ELSE s3

\* variant: per-group heartbeats are not dropped
dropMessageRespOnly(msg, noMoreHeartbeats) ==
  msg.type = MsgHeartbeatResp /\ msg.to \in noMoreHeartbeats

\* the switch on msg.Type in handleWriteResponse: the messages it drops
dropMessage(msg, noMoreHeartbeats) ==
  \/ msg.type = MsgHeartbeat
  \/ msg.type = MsgHeartbeatResp /\ msg.to \in noMoreHeartbeats

\* the loop over ready.Messages in handleWriteResponse
RECURSIVE sendMessages(_, _, _, _, _)
sendMessages(st, groupID, msgs, noMoreHeartbeats, sendFails) ==
  IF msgs = <<>> THEN st
  ELSE LET msg == Head(msgs)
       IN IF dropMessage(msg, noMoreHeartbeats)
          THEN sendMessages(st, groupID, Tail(msgs), noMoreHeartbeats, sendFails)
          ELSE sendMessages(sendMessage(st, groupID, msg, sendFails), groupID, Tail(msgs),
                            IF msg.type = MsgHeartbeatResp
                            THEN noMoreHeartbeats \cup {msg.to} ELSE noMoreHeartbeats,
                            sendFails)

\* variant: the messages of a group go out before its committed entries are
\* processed
handleGroupSendFirst(st, groupID, ready, cidOrder, sendFails) ==
  IF groupID \notin DOMAIN st.groups THEN st
  ELSE LET s0 == sendMessages(st, groupID, ready.msgs, {}, sendFails)
           s1 == processEntries(s0, groupID, ready.committed)
           s2 == maybeSendLeaderEvent(s1, groupID, ready, cidOrder)
       IN IF s1.loop # "running" THEN s1 ELSE s2

\* variant: only the committed entries of a group that is gone are skipped
handleGroupStaleSends(st, groupID, ready, cidOrder, sendFails) ==
  IF groupID \notin DOMAIN st.groups THEN sendMessages(st, groupID, ready.msgs, {}, sendFails)
  ELSE LET s1 == processEntries(st, groupID, ready.committed)
           s2 == maybeSendLeaderEvent(s1, groupID, ready, cidOrder)
       IN IF s1.loop # "running" THEN s1
          ELSE IF s2.loop # "running" THEN s2
          ELSE sendMessages(s2, groupID, ready.msgs, {}, sendFails)

\* variant: the committed entries of a batch are processed last to first
handleGroupLastFirst(st, groupID, ready, cidOrder, sendFails) ==
  IF groupID \notin DOMAIN st.groups THEN st
  ELSE LET n == Len(ready.committed)
           s1 == processEntries(st, groupID, [i \in 1..n |-> ready.committed[n + 1 - i]])
           s2 == maybeSendLeaderEvent(s1, groupID, ready, cidOrder)
       IN IF s1.loop # "running" THEN s1
          ELSE IF s2.loop # "running" THEN s2
          ELSE sendMessages(s2, groupID, ready.msgs, {}, sendFails)

\* the body of the loop over readyGroups in handleWriteResponse
handleGroup(st, groupID, ready, cidOrder, sendFails) ==
  IF groupID \notin DOMAIN st.groups THEN st
  ELSE LET s1 == processEntries(st, groupID, ready.committed)
           s2 == maybeSendLeaderEvent(s1, groupID, ready, cidOrder)
       IN IF s1.loop # "running" THEN s1
          ELSE IF s2.loop # "running" THEN s2
          ELSE sendMessages(s2, groupID, ready.msgs, {}, sendFails)

\* state.handleWriteResponse; order is the iteration order of the map
RECURSIVE handleWriteResponse(_, _, _, _, _)
handleWriteResponse(st, batch, order, cidOrder, sendFails) ==
  IF order = <<>> \/ st.loop # "running" THEN st
  ELSE handleWriteResponse(handleGroup(st, Head(order), batch[Head(order)], cidOrder, sendFails),
                           batch, Tail(order), cidOrder, sendFails)

\* state.fanoutHeartbeat; order is the iteration order of originNode.groupIDs
RECURSIVE fanout(_, _, _, _, _)
fanout(st, gs, from, type, wantLeader) ==
  IF gs = <<>> \/ st.loop # "running" THEN st
  ELSE IF Head(gs) \notin DOMAIN st.groups THEN [st EXCEPT !.loop = "panicked"]
  ELSE IF st.groups[Head(gs)].leader # wantLeader \/ from = Self
       THEN fanout(st, Tail(gs), from, type, wantLeader)
       ELSE fanout(Emit(st, Eff("step", Head(gs), from, type, 0)), Tail(gs), from, type, wantLeader)

\* variant: the unknown sender is taken into the peer registry
fanoutHeartbeatRegisters(st, req, order) ==
  IF req.from \notin DOMAIN st.nodes
  THEN Emit([st EXCEPT !.nodes = Put(@, req.from, newNode)],
            Eff("send", MaxUint64, req.from, MsgHeartbeatResp, Self))
  ELSE fanout(st, InOrder(order, st.nodes[req.from]), req.from, MsgHeartbeat, req.from)

\* state.fanoutHeartbeat; in a "send" the last field is the From the
\* coordinator puts into the message (0: the message is Raft's own)
fanoutHeartbeat(st, req, order) ==
  IF req.from \notin DOMAIN st.nodes
  THEN Emit(st, Eff("send", MaxUint64, req.from, MsgHeartbeatResp, Self))
  ELSE fanout(st, InOrder(order, st.nodes[req.from]), req.from, MsgHeartbeat, req.from)

\* state.fanoutHeartbeatResponse
fanoutHeartbeatResponse(st, req, order) ==
  IF req.from \notin DOMAIN st.nodes THEN st
  ELSE fanout(st, InOrder(order, st.nodes[req.from]), req.from, MsgHeartbeatResp, Self)

\* state.coalescedHeartbeat; ns is the iteration order of s.nodes
RECURSIVE heartbeatNodes(_, _)
heartbeatNodes(st, ns) ==
  IF ns = <<>> THEN st
  ELSE IF Head(ns) = Self THEN heartbeatNodes(st, Tail(ns))
  ELSE heartbeatNodes(Emit(st, Eff("send", MaxUint64, Head(ns), MsgHeartbeat, Self)), Tail(ns))

coalescedHeartbeat(st, order) == heartbeatNodes(st, InOrder(order, DOMAIN st.nodes))

\* the thunk a Callback posts on callbackChan (processCommittedEntry)
runCallback(st, th, cidOrder) ==
  LET s1 == IF th.err = "nil"
            THEN Emit(IF th.type = ConfChangeAddNode THEN addNode(st, th.node, th.g) ELSE st,
                      Eff("applyConfChange", th.g, th.node, th.type, 0))
            ELSE Emit(st, Eff("applyConfChange", th.g, 0, "empty", 0))
      pending == IF th.obj = <<>> THEN s1.groups[th.g].pending ELSE th.obj[1]
  IN resubmit(s1, PendingInOrder(pending, cidOrder))

\* the switch on req.Message.Type in state.start
\* variant: the group named by the request is created before the switch
\* on the message type
handleRequestCreatesFirst(st, req, init, inPipe, order) ==
  LET s1 == IF req.group \in GroupIds /\ ~createGroupErr(st, req.group, init)
            THEN createGroup(st, req.group, init, inPipe) ELSE st
  IN IF req.type = MsgHeartbeat THEN fanoutHeartbeat(s1, req, order)
     ELSE IF req.type = MsgHeartbeatResp THEN fanoutHeartbeatResponse(s1, req, order)
     ELSE IF createGroupErr(st, req.group, init) THEN st
     ELSE Emit(s1, Eff("step", req.group, req.from, req.type, 0))

\* variant: the message is stepped although the group could not be created
handleRequestStepsAnyway(st, req, init, inPipe, order) ==
  IF req.type = MsgHeartbeat THEN fanoutHeartbeat(st, req, order)
  ELSE IF req.type = MsgHeartbeatResp THEN fanoutHeartbeatResponse(st, req, order)
  ELSE IF createGroupErr(st, req.group, init) THEN Emit(st, Eff("step", req.group, req.from, req.type, 0))
  ELSE Emit(createGroup(st, req.group, init, inPipe), Eff("step", req.group, req.from, req.type, 0))

\* case req := <-s.reqChan
handleRequest(st, req, init, inPipe, order) ==
  IF req.type = MsgHeartbeat THEN fanoutHeartbeat(st, req, order)
  ELSE IF req.type = MsgHeartbeatResp THEN fanoutHeartbeatResponse(st, req, order)
  ELSE IF createGroupErr(st, req.group, init) THEN st
  ELSE Emit(createGroup(st, req.group, init, inPipe), Eff("step", req.group, req.from, req.type, 0))

\* --------------------------------------------------------------- actions
St ==
  [groups |-> groups, nodes |-> nodes, props |-> props, chWrites |-> chWrites,
   proposalChan |-> proposalChan, callbacks |-> callbacks, callbackChan |-> callbackChan,
   raftIndex |-> raftIndex, raftTerm |-> raftTerm, loop |-> loop, Events |-> Events,
   eff |-> <<>>]

\* e is the event of a committed entry of group g
EntryEvent(e, g) ==
  e.k = "event" /\ e.g = g /\ e.x \in {"CommandCommitted", "MembershipChangeCommitted"}

\* the state a handler leaves behind
Becomes(st) ==
  /\ groups' = st.groups
  /\ nodes' = st.nodes
  /\ props' = st.props
  /\ chWrites' = st.chWrites
  /\ proposalChan' = st.proposalChan
  /\ callbacks' = st.callbacks
  /\ callbackChan' = st.callbackChan
  /\ raftIndex' = st.raftIndex
  /\ raftTerm' = st.raftTerm
  /\ loop' = st.loop
  /\ Events' = st.Events
  /\ stopper' = stopper
  /\ scanner' = scanner
  /\ newMultiRaftCall' = newMultiRaftCall
  /\ effects' = st.eff
  /\ history' = [g \in DOMAIN history |->
       LET events == {j \in DOMAIN st.eff : EntryEvent(st.eff[j], g)}
           top == IF events = {} THEN 0
                  ELSE st.eff[CHOOSE i \in events : \A j \in events : st.eff[j].n <= st.eff[i].n].n
           created == \E i \in DOMAIN st.eff : st.eff[i].k = "raftCreateGroup" /\ st.eff[i].g = g
           answers == {j \in DOMAIN st.eff : st.eff[j].k = "removeOp" /\ st.eff[j].g = g}
           success == answers # {} /\ st.eff[CHOOSE i \in answers : \A j \in answers : i <= j].x = "nil"
       IN [removed |-> history[g].removed \/ success,
           ever |-> Max(history[g].ever, top),
           inc |-> IF created THEN 0 ELSE Max(history[g].inc, top)]]

\* the groups of the batch the loop holds (stashed or being written)
InPipe ==
  (IF readyGroups # <<>> THEN DOMAIN readyGroups[1] ELSE {})
  \cup (IF writingGroups # <<>> THEN DOMAIN writingGroups[1] ELSE {})

\* what Storage.InitialState returns for group g: with an error (ok false) or
\* with the stored ConfState
InitialState(g, ok) == [ok |-> ok, nodes |-> confState[g]]

\* ------------------------------------------------------- NewMultiRaft
\* the Configs tried: Transport given or nil, the three durations from
\* -MaxConfigTicks to MaxConfigTicks (Go int, time.Duration: signed)
Configs ==
  [Transport : BOOLEAN,
   ElectionTimeoutTicks : (0 - MaxConfigTicks)..MaxConfigTicks,
   HeartbeatIntervalTicks : (0 - MaxConfigTicks)..MaxConfigTicks,
   TickInterval : (0 - MaxConfigTicks)..MaxConfigTicks]

\* Config.validate: the error it returns, "nil" for none
validate(c) ==
  IF ~c.Transport THEN "Transport is required"
  ELSE IF c.ElectionTimeoutTicks = 0 THEN "ElectionTimeoutTicks must be non-zero"
  ELSE IF c.HeartbeatIntervalTicks = 0 THEN "HeartbeatIntervalTicks must be non-zero"
  ELSE IF c.TickInterval = 0 THEN "TickInterval must be non-zero"
  ELSE "nil"

\* NewMultiRaft: m says whether a *MultiRaft is returned, err is the error;
\* listenOk is whether Transport.Listen succeeds
NewMultiRaft(call) ==
  IF call.nodeID = 0 THEN [call EXCEPT !.returned = TRUE, !.err = "Invalid NodeID"]
  ELSE IF validate(call.config) # "nil"
  THEN [call EXCEPT !.returned = TRUE, !.err = validate(call.config)]
  ELSE IF ~call.listenOk THEN [call EXCEPT !.returned = TRUE, !.err = "listen"]
  ELSE [call EXCEPT !.returned = TRUE, !.m = TRUE, !.err = "nil"]

\* the call behind the coordinator of the other specifications
Constructed ==
  NewMultiRaft([nodeID |-> Self,
                config |-> [Transport |-> TRUE, ElectionTimeoutTicks |-> 1,
                            HeartbeatIntervalTicks |-> HeartbeatIntervalTicks, TickInterval |-> 1],
                listenOk |-> TRUE, returned |-> FALSE, m |-> FALSE, err |-> ""])

\* ---------------------------------------------------------- util.Stopper
Tasks == 1..MaxTasks
Closers == 1..MaxClosers

\* NewStopper: both channels open, the counters zero; nobody has called
\* Stop() or StartTask() yet
NewStopper ==
  [stopper |-> "open", stopped |-> "open", stop |-> 0, mu |-> FALSE,
   draining |-> 0, drain |-> 0, closers |-> <<>>, closed |-> <<>>,
   stopPc |-> "idle", pc |-> [t \in Tasks |-> "idle"]]

\* everything but the Stopper
multiRaftVars == <<groups, nodes, readyGroups, writingGroups, ticks, loop, Events, history,
                   newMultiRaftCall, chanVars, propVars, writeVars, raftVars>>

restVars == <<multiRaftVars, scanner>>

StopperStep(next) ==
  /\ stopper' = next
  /\ effects' = <<>>
  /\ UNCHANGED restVars

\* AddWorker, called while the workers are set up, before Stop()
AddWorker ==
  /\ stopper.stopPc = "idle"
  /\ stopper.stop < MaxWorkers
  /\ StopperStep([stopper EXCEPT !.stop = @ + 1])

\* AddCloser: under s.mu, append c to s.closers
AddCloser(c) ==
  /\ ~stopper.mu
  /\ \A i \in DOMAIN stopper.closers : stopper.closers[i] # c
  /\ StopperStep([stopper EXCEPT !.closers = Append(@, c)])

\* SetStopped, called by a worker that has seen ShouldStop() closed
SetStopped ==
  /\ stopper.stopper = "closed"
  /\ stopper.stop > 0
  /\ StopperStep([stopper EXCEPT !.stop = @ - 1])

\* StartTask, the test: atomic.LoadInt32(&s.draining) == 0; with draining
\* set the call returns false
StartTaskLoad(t) ==
  /\ stopper.pc[t] = "idle"
  /\ StopperStep([stopper EXCEPT !.pc[t] = IF stopper.draining = 0 THEN "lock" ELSE "idle"])

\* StartTask, after the test: s.mu.Lock(); s.drain.Add(1); return true (the
\* deferred Unlock with it); the caller now runs its task
StartTask(t) ==
  /\ stopper.pc[t] = "lock"
  /\ ~stopper.mu
  /\ StopperStep([stopper EXCEPT !.drain = @ + 1, !.pc[t] = "task"])

\* FinishTask: s.drain.Done()
FinishTask(t) ==
  /\ stopper.pc[t] = "task"
  /\ StopperStep([stopper EXCEPT !.drain = @ - 1, !.pc[t] = "idle"])

\* Stop: s.mu.Lock()
StopLock ==
  /\ stopper.stopPc = "idle"
  /\ ~stopper.mu
  /\ StopperStep([stopper EXCEPT !.mu = TRUE, !.stopPc = "locked"])

\* Stop: atomic.StoreInt32(&s.draining, 1)
StopDraining ==
  /\ stopper.stopPc = "locked"
  /\ StopperStep([stopper EXCEPT !.draining = 1, !.stopPc = "draining"])

\* Stop: s.drain.Wait(); close(s.stopper)
StopClose ==
  /\ stopper.stopPc = "draining"
  /\ stopper.drain = 0
  /\ StopperStep([stopper EXCEPT !.stopper = "closed", !.stopPc = "stopping"])

\* variant: Stop goes on to the closers without waiting for the workers
StopWaitSkipped ==
  /\ stopper.stopPc = "stopping"
  /\ StopperStep([stopper EXCEPT !.stopPc = "closing"])

\* Stop: s.stop.Wait()
StopWait ==
  /\ stopper.stopPc = "stopping"
  /\ stopper.stop = 0
  /\ StopperStep([stopper EXCEPT !.stopPc = "closing"])

\* Stop: one turn of the loop over s.closers, c.Close(); closed lists the
\* Close() calls made so far
StopCloser ==
  /\ stopper.stopPc = "closing"
  /\ Len(stopper.closed) < Len(stopper.closers)
  /\ StopperStep([stopper EXCEPT !.closed = Append(@, stopper.closers[Len(@) + 1])])

\* Stop: after the loop over s.closers, close(s.stopped); the deferred Unlock
StopStopped ==
  /\ stopper.stopPc = "closing"
  /\ Len(stopper.closed) = Len(stopper.closers)
  /\ StopperStep([stopper EXCEPT !.stopped = "closed", !.mu = FALSE, !.stopPc = "returned"])

\* SpecStopper: a Stop() call, MaxTasks callers of StartTask()/FinishTask()
\* and up to MaxWorkers workers on one Stopper.
NextStopper ==
  \/ AddWorker
  \/ \E c \in Closers : AddCloser(c)
  \/ SetStopped
  \/ \E t \in Tasks : StartTaskLoad(t)
  \/ \E t \in Tasks : StartTask(t)
  \/ \E t \in Tasks : FinishTask(t)
  \/ StopLock
  \/ StopDraining
  \/ StopClose
  \/ StopWait
  \/ StopCloser
  \/ StopStopped

\* ------------------------------------------------- storage.rangeScanner
Ranges == 1..MaxRanges
Waiters == 1..MaxWaiters

\* rng.stats.GetMVCC() of range r, one number standing for the MVCC stats
RangeStats(r) == r

\* &storeStats{}
emptyStats == [RangeCount |-> 0, MVCC |-> 0]

\* newRangeScanner over an iterator of MaxRanges ranges; pc is the position
\* of the scan loop's worker ("new" before Start), pos the number of ranges
\* the iterator has returned in this pass and size the number it holds,
\* stats the published storeStats and acc the worker's local stats
newRangeScanner ==
  [pc |-> "new", pos |-> 0, size |-> MaxRanges, count |-> 0,
   stats |-> [RangeCount |-> MaxRanges, MVCC |-> 0], acc |-> emptyStats,
   queues |-> {}, removed |-> <<>>,
   waiters |-> [w \in Waiters |-> [pc |-> "idle", initalValue |-> 0, ret |-> 0]]]

\* rangeScanner.Stats
Stats == scanner.stats

\* rangeScanner.Count
Count == scanner.count

ScannerStep(nextStopper, nextScanner, eff) ==
  /\ stopper' = nextStopper
  /\ scanner' = nextScanner
  /\ effects' = eff
  /\ UNCHANGED multiRaftVars

\* rangeScanner.Start, scanLoop: stopper.RunWorker(...) adds a worker and
\* starts the goroutine of the loop
ScannerStart ==
  /\ scanner.pc = "new"
  /\ stopper.stopPc = "idle"
  /\ ScannerStep([stopper EXCEPT !.stop = @ + 1], [scanner EXCEPT !.pc = "select"], <<>>)

\* case <-time.After(waitInterval): stopper.StartTask() as far as its test
\* of draining; with draining set StartTask returns false and the loop
\* continues
ScanTimer ==
  /\ scanner.pc = "select"
  /\ scanner.count < MaxScans
  /\ ScannerStep(stopper,
                 [scanner EXCEPT !.pc = IF stopper.draining = 0 THEN "lock" ELSE "select"],
                 IF stopper.draining = 0 THEN <<>> ELSE <<Eff("startTask", 0, 0, "false", 0)>>)

\* the rest of stopper.StartTask(): s.mu.Lock(), s.drain.Add(1), return true
ScanStartTask ==
  /\ scanner.pc = "lock"
  /\ ~stopper.mu
  /\ ScannerStep([stopper EXCEPT !.drain = @ + 1], [scanner EXCEPT !.pc = "next"],
                 <<Eff("startTask", 0, 0, "true", 0)>>)

\* variant: the worker goes on with the same stats object after a pass
ScanNextKeepsStats(n) ==
  /\ scanner.pc = "next"
  /\ IF scanner.pos < scanner.size
     THEN LET rng == scanner.pos + 1
          IN ScannerStep(stopper,
               [scanner EXCEPT !.pos = rng,
                               !.queues = @ \cup {rng},
                               !.acc = [RangeCount |-> @.RangeCount + 1, MVCC |-> @.MVCC + RangeStats(rng)],
                               !.pc = "finish"],
               <<Eff("iterNext", 0, rng, "", 0), Eff("maybeAdd", 0, rng, "", 0)>>)
     ELSE ScannerStep(stopper,
               [scanner EXCEPT !.pos = 0, !.size = n,
                               !.stats = scanner.acc,
                               !.pc = "count"],
               <<Eff("iterNext", 0, 0, "nil", 0), Eff("iterReset", 0, 0, "", 0)>>)

\* rng := rs.iter.Next() and the branch taken on it; n is the number of
\* ranges the iterator holds after a Reset
ScanNext(n) ==
  /\ scanner.pc = "next"
  /\ IF scanner.pos < scanner.size
     THEN LET rng == scanner.pos + 1
          IN ScannerStep(stopper,
               [scanner EXCEPT !.pos = rng,
                               !.queues = @ \cup {rng},
                               !.acc = [RangeCount |-> @.RangeCount + 1, MVCC |-> @.MVCC + RangeStats(rng)],
                               !.pc = "finish"],
               <<Eff("iterNext", 0, rng, "", 0), Eff("maybeAdd", 0, rng, "", 0)>>)
     ELSE ScannerStep(stopper,
               [scanner EXCEPT !.pos = 0, !.size = n,
                               !.stats = scanner.acc,
                               !.acc = emptyStats,
                               !.pc = "count"],
               <<Eff("iterNext", 0, 0, "nil", 0), Eff("iterReset", 0, 0, "", 0)>>)

\* rs.count++ and Broadcast under completedScan.L
ScanCount ==
  /\ scanner.pc = "count"
  /\ ScannerStep(stopper, [scanner EXCEPT !.count = @ + 1, !.pc = "finish"], <<>>)

\* stopper.FinishTask()
ScanFinishTask ==
  /\ scanner.pc = "finish"
  /\ ScannerStep([stopper EXCEPT !.drain = @ - 1], [scanner EXCEPT !.pc = "select"],
                 <<Eff("finishTask", 0, 0, "", 0)>>)

\* case rng := <-rs.removed
ScanRemoved ==
  /\ scanner.pc = "select"
  /\ scanner.removed # <<>>
  /\ ScannerStep(stopper,
                 [scanner EXCEPT !.queues = @ \ {Head(scanner.removed)}, !.removed = Tail(@)],
                 <<Eff("maybeRemove", 0, Head(scanner.removed), "", 0)>>)

\* case <-stopper.ShouldStop(): return, and the SetStopped() that RunWorker
\* deferred
ScanShouldStop ==
  /\ scanner.pc = "select"
  /\ stopper.stopper = "closed"
  /\ ScannerStep([stopper EXCEPT !.stop = @ - 1], [scanner EXCEPT !.pc = "done"], <<>>)

\* rangeScanner.RemoveRange
RemoveRange(rng) ==
  /\ Len(scanner.removed) < MaxRemoved
  /\ ScannerStep(stopper, [scanner EXCEPT !.removed = Append(@, rng)], <<>>)

\* rangeScanner.WaitForScanCompletion as far as its first Wait()
WaitForScanCompletion(w) ==
  /\ scanner.waiters[w].pc = "idle"
  /\ ScannerStep(stopper,
                 [scanner EXCEPT !.waiters[w] = [pc |-> "waiting", initalValue |-> scanner.count, ret |-> 0]],
                 <<>>)

\* WaitForScanCompletion leaves its loop and returns rs.count
WaitReturn(w) ==
  /\ scanner.waiters[w].pc = "waiting"
  /\ scanner.count # scanner.waiters[w].initalValue
  /\ ScannerStep(stopper,
                 [scanner EXCEPT !.waiters[w].pc = "returned", !.waiters[w].ret = scanner.count],
                 <<>>)

\* SpecScanner: the scan loop of one rangeScanner, callers of RemoveRange
\* and WaitForScanCompletion, and a Stop() call on its Stopper.
NextScanner ==
  \/ ScannerStart
  \/ ScanTimer
  \/ ScanStartTask
  \/ \E n \in 0..MaxRanges : ScanNext(n)
  \/ ScanCount
  \/ ScanFinishTask
  \/ ScanRemoved
  \/ ScanShouldStop
  \/ \E rng \in Ranges : RemoveRange(rng)
  \/ \E w \in Waiters : WaitForScanCompletion(w)
  \/ \E w \in Waiters : WaitReturn(w)
  \/ StopLock
  \/ StopDraining
  \/ StopClose
  \/ StopWait
  \/ StopStopped

\* the state after NewMultiRaft and newState, before the first loop turn;
\* recorded are the groups whose history is kept, tracked says whether the
\* consumption of Events is followed
\* the ConfState the storage holds for every group when the other
\* specifications start
StoredConfState == [g \in GroupIds |-> {Self, 2}]

InitState(recorded, tracked) ==
  /\ groups = EmptyMap
  /\ nodes = EmptyMap
  /\ readyGroups = <<>>
  /\ writingGroups = <<>>
  /\ ticks = 0
  /\ loop = "running"
  /\ Events = [tracked |-> tracked, q |-> <<>>]
  /\ history = [g \in recorded |-> [removed |-> FALSE, ever |-> 0, inc |-> 0]]
  /\ stopper = NewStopper
  /\ scanner = newRangeScanner
  /\ createGroupChan = <<>>
  /\ removeGroupChan = <<>>
  /\ proposalChan = <<>>
  /\ callbackChan = <<>>
  /\ props = EmptyMap
  /\ chWrites = EmptyMap
  /\ callbacks = {}
  /\ wtIn = <<>>
  /\ wtOut = <<>>
  /\ hardState = [g \in GroupIds |-> 0]
  /\ raftIndex = [g \in GroupIds |-> 0]
  /\ raftTerm = [g \in GroupIds |-> 0]
  /\ raftBusy = 0
  /\ effects = <<>>

Init == InitState({}, FALSE) /\ newMultiRaftCall = Constructed /\ confState = StoredConfState

\* Init with the history of every group recorded
InitHistory == InitState(GroupIds, FALSE) /\ newMultiRaftCall = Constructed /\ confState = StoredConfState

\* Init with the consumption of Events followed
InitEvents == InitState({}, TRUE) /\ newMultiRaftCall = Constructed /\ confState = StoredConfState

\* Init over a storage that holds any ConfState for each group
InitCreate ==
  /\ InitState({}, FALSE)
  /\ newMultiRaftCall = Constructed
  /\ confState \in [GroupIds -> SUBSET NodeIds]

\* before NewMultiRaft is called, with any node id and Config
InitConfig ==
  /\ InitState({}, FALSE)
  /\ confState = StoredConfState
  /\ newMultiRaftCall \in [nodeID : 0..1, config : Configs, listenOk : BOOLEAN,
                           returned : {FALSE}, m : {FALSE}, err : {""}]

\* the call of NewMultiRaft(nodeID, config)
Construct ==
  /\ ~newMultiRaftCall.returned
  /\ newMultiRaftCall' = NewMultiRaft(newMultiRaftCall)
  /\ effects' = <<>>
  /\ UNCHANGED <<groups, nodes, readyGroups, writingGroups, ticks, loop, Events, history,
                 stopper, scanner, chanVars, propVars, writeVars, raftVars>>

NextConfig == Construct

SpecConfig == InitConfig /\ [][NextConfig]_vars

\* the application takes the next event off MultiRaft.Events
ConsumeEvent ==
  /\ Events.tracked
  /\ Events.q # <<>>
  /\ Events' = [Events EXCEPT !.q = Tail(@)]
  /\ effects' = <<Eff("consume", 0, 0, "", 0)>>
  /\ UNCHANGED <<groups, nodes, readyGroups, writingGroups, ticks, loop, history, stopper, scanner, newMultiRaftCall,
                 chanVars, propVars, writeVars, raftVars>>

\* MultiRaft.CreateGroup: the caller enqueues the op (and waits for op.ch)
CreateGroup(g) ==
  /\ Len(createGroupChan) < OpChanCap
  /\ createGroupChan' = Append(createGroupChan, g)
  /\ effects' = <<>>
  /\ UNCHANGED <<coordVars, removeGroupChan, proposalChan, callbackChan, propVars, writeVars, raftVars>>

\* MultiRaft.RemoveGroup
RemoveGroup(g) ==
  /\ Len(removeGroupChan) < OpChanCap
  /\ removeGroupChan' = Append(removeGroupChan, g)
  /\ effects' = <<>>
  /\ UNCHANGED <<coordVars, createGroupChan, proposalChan, callbackChan, propVars, writeVars, raftVars>>

\* the proposal SubmitCommand and ChangeGroupMembership build and enqueue
NewProposal(g, c, fn) ==
  LET p == Cardinality(DOMAIN props) + 1
  IN /\ p <= MaxProps
     /\ Len(proposalChan) < ChanCap
     /\ props' = Put(props, p, [groupID |-> g, commandID |-> c, fn |-> fn, ch |-> TRUE])
     /\ chWrites' = Put(chWrites, p, 0)
     /\ proposalChan' = Append(proposalChan, p)
     /\ effects' = <<>>
     /\ UNCHANGED <<coordVars, createGroupChan, removeGroupChan, callbackChan, callbacks, writeVars, raftVars>>

\* MultiRaft.SubmitCommand
SubmitCommand(g, c) == NewProposal(g, c, "Propose")

\* MultiRaft.ChangeGroupMembership
ChangeGroupMembership(g, c) == NewProposal(g, c, "ProposeConfChange")

\* the application invokes the Callback of a membership-change event
Callback(c, err) ==
  /\ c \in callbacks
  /\ Len(callbackChan) < ChanCap
  /\ callbacks' = callbacks \ {c}
  /\ callbackChan' = Append(callbackChan, [g |-> c.g, type |-> c.type, node |-> c.node, obj |-> c.obj, err |-> err])
  /\ effects' = <<>>
  /\ UNCHANGED <<coordVars, createGroupChan, removeGroupChan, proposalChan, props, chWrites, writeVars, raftVars>>

\* the write task: persist every group of the request (HardState, snapshot,
\* entries), then acknowledge on out
WriteTask ==
  /\ wtIn # <<>>
  /\ wtOut = <<>>
  /\ LET req == wtIn[1]
     IN /\ hardState' = [g \in GroupIds |-> IF g \in DOMAIN req THEN Max(hardState[g], req[g].state) ELSE hardState[g]]
        /\ confState' = [g \in GroupIds |->
                           IF g \in DOMAIN req /\ req[g].snapshot # <<>> THEN req[g].snapshot[1]
                           ELSE confState[g]]
        /\ wtOut' = <<DOMAIN req>>
  /\ wtIn' = <<>>
  /\ effects' = <<>>
  /\ UNCHANGED <<coordVars, chanVars, propVars, raftVars>>

\* the select of state.start can take an arm
Running == loop = "running"

\* case req := <-s.reqChan; req = [type, from, group]
HandleRequest(req, ok, order) ==
  /\ Running
  /\ Becomes(handleRequest(St, req,
                           InitialState(IF req.group \in GroupIds THEN req.group ELSE 1, ok),
                           InPipe, order))
  /\ UNCHANGED <<readyGroups, writingGroups, ticks, createGroupChan, removeGroupChan, writeVars, raftBusy>>

\* case op := <-s.createGroupChan
HandleCreateGroup(ok) ==
  /\ Running
  /\ createGroupChan # <<>>
  /\ LET g == Head(createGroupChan)
         init == InitialState(g, ok)
     IN Becomes(Emit(createGroup(St, g, init, InPipe),
                     Eff("createOp", g, 0, IF createGroupErr(St, g, init) THEN "error" ELSE "nil", 0)))
  /\ createGroupChan' = Tail(createGroupChan)
  /\ UNCHANGED <<readyGroups, writingGroups, ticks, removeGroupChan, writeVars, raftBusy>>

\* case op := <-s.removeGroupChan
HandleRemoveGroup(rmOk, ok) ==
  /\ Running
  /\ removeGroupChan # <<>>
  /\ LET g == Head(removeGroupChan)
     IN Becomes(removeGroup(St, g, rmOk, InitialState(g, ok)))
  /\ removeGroupChan' = Tail(removeGroupChan)
  /\ UNCHANGED <<readyGroups, writingGroups, ticks, createGroupChan, writeVars, raftBusy>>

\* case prop := <-s.proposalChan
HandleProposal(fnErr) ==
  /\ Running
  /\ proposalChan # <<>>
  /\ Becomes(propose([St EXCEPT !.proposalChan = Tail(@)], Head(proposalChan), fnErr))
  /\ UNCHANGED <<readyGroups, writingGroups, ticks, createGroupChan, removeGroupChan, writeVars, raftBusy>>

\* variant: the arm only waits for the stash to be empty
RaftReadyArmedStashOnly == readyGroups = <<>>

\* the raftReady arm is armed: readyGroups == nil and writingGroups == nil
RaftReadyArmed == readyGroups = <<>> /\ writingGroups = <<>>

\* case readyGroups = <-raftReady
RaftReady(batch) ==
  /\ Running
  /\ RaftReadyArmed
  /\ readyGroups' = <<batch>>
  /\ raftIndex' = [g \in GroupIds |-> IF g \in DOMAIN batch THEN batch[g].commit ELSE raftIndex[g]]
  /\ raftTerm' = [g \in GroupIds |-> IF g \in DOMAIN batch /\ batch[g].committed # <<>>
                                   THEN batch[g].committed[Len(batch[g].committed)].term ELSE raftTerm[g]]
  /\ raftBusy' = raftBusy + 1
  /\ effects' = <<>>
  /\ UNCHANGED <<Events, history, stopper, scanner, newMultiRaftCall, groups, nodes, writingGroups, ticks, loop, chanVars, propVars, writeVars>>

\* state.handleWriteReady: the writeRequest built from the stashed batch
writeRequest(batch) ==
  [g \in DOMAIN batch |-> [state |-> batch[g].commit, snapshot |-> batch[g].snap]]

\* the writeReady arm is armed: readyGroups != nil
WriteReadyArmed == readyGroups # <<>>

\* case writeReady <- struct{}{}
WriteReady ==
  /\ Running
  /\ WriteReadyArmed
  /\ wtIn = <<>> /\ wtOut = <<>>
  /\ wtIn' = <<writeRequest(readyGroups[1])>>
  /\ writingGroups' = readyGroups
  /\ readyGroups' = <<>>
  /\ effects' = <<>>
  /\ UNCHANGED <<Events, history, stopper, scanner, newMultiRaftCall, groups, nodes, ticks, loop, chanVars, propVars, wtOut, hardState, confState, raftVars>>

\* variant: the batch is processed without waiting for the write task
WriteDoneArmedUnacked == writingGroups # <<>>

\* a write response can be received from writeTask.out
WriteDoneArmed == wtOut # <<>>

\* case resp := <-s.writeTask.out
WriteDone(order, cidOrder, sendFails) ==
  /\ Running
  /\ WriteDoneArmed
  /\ writingGroups # <<>>
  /\ order \in Perms(DOMAIN writingGroups[1])
  /\ LET st == handleWriteResponse(St, writingGroups[1], order, cidOrder, sendFails)
     IN IF st.loop = "running"
        THEN /\ Becomes(Emit(st, Eff("advance", 0, 0, "", 0)))
             /\ raftBusy' = raftBusy - 1
             /\ writingGroups' = <<>>
        ELSE /\ Becomes(st)
             /\ UNCHANGED <<raftBusy, writingGroups>>
  /\ wtOut' = <<>>
  /\ UNCHANGED <<readyGroups, ticks, createGroupChan, removeGroupChan, wtIn, hardState, confState>>

\* variant: the coalescer runs on every tick
TickCoalescesAlways(order) ==
  /\ Running
  /\ ticks' = 0
  /\ Becomes(coalescedHeartbeat(Emit(St, Eff("tick", 0, 0, "", 0)), order))
  /\ UNCHANGED <<readyGroups, writingGroups, createGroupChan, removeGroupChan, writeVars, raftBusy>>

\* case <-s.Ticker.Chan()
Tick(order) ==
  /\ Running
  /\ LET s1 == Emit(St, Eff("tick", 0, 0, "", 0))
     IN IF ticks + 1 >= HeartbeatIntervalTicks
        THEN ticks' = 0 /\ Becomes(coalescedHeartbeat(s1, order))
        ELSE ticks' = ticks + 1 /\ Becomes(s1)
  /\ UNCHANGED <<readyGroups, writingGroups, createGroupChan, removeGroupChan, writeVars, raftBusy>>

\* case cb := <-s.callbackChan
HandleCallback(cidOrder) ==
  /\ Running
  /\ callbackChan # <<>>
  /\ Becomes(runCallback([St EXCEPT !.callbackChan = Tail(@)], Head(callbackChan), cidOrder))
  /\ UNCHANGED <<readyGroups, writingGroups, ticks, createGroupChan, removeGroupChan, writeVars, raftBusy>>

\* the drain loop of state.stop; picks[i] says whether turn i of the select
\* takes createGroupChan when both channels hold an op
RECURSIVE drain(_, _, _, _)
drain(eff, cq, rq, picks) ==
  IF cq = <<>> /\ rq = <<>> THEN eff
  ELSE IF rq = <<>> \/ (cq # <<>> /\ Head(picks))
  THEN drain(Append(eff, Eff("createOp", Head(cq), 0, "shutting down", 0)), Tail(cq), rq, Tail(picks))
  ELSE drain(Append(eff, Eff("removeOp", Head(rq), 0, "shutting down", 0)), cq, Tail(rq), Tail(picks))

\* state.stop
stop(cq, rq, picks) ==
  Append(drain(<<Eff("transportStop", 0, 0, "", 0)>>, cq, rq, picks),
         Eff("raftStop", 0, 0, "", 0))

\* case <-s.stopper.ShouldStop(): the loop stops and returns
Stop(picks) ==
  /\ Running
  /\ effects' = stop(createGroupChan, removeGroupChan, picks)
  /\ createGroupChan' = <<>>
  /\ removeGroupChan' = <<>>
  /\ loop' = "stopped"
  /\ UNCHANGED <<Events, history, stopper, scanner, newMultiRaftCall, groups, nodes, readyGroups, writingGroups, ticks, proposalChan, callbackChan,
                 propVars, writeVars, raftVars>>

\* the groups of the batch being written: the keys handleWriteResponse ranges over
WritingGroupIds == IF writingGroups = <<>> THEN {} ELSE DOMAIN writingGroups[1]

\* ------------------------------------------------------- specifications
\* Spec: the read / write / apply pipeline of one group with its proposals,
\* commits, leader changes and outbound messages.
EnvPipe ==
  [groups |-> {1}, weight |-> MaxBatchItems,
   bodies |-> {Body(EntryNormal, "a", 0)},
   softs |-> {Self},
   msgs |-> {Msg(MsgApp, MaxNode)},
   snaps |-> {}]

Next ==
  \/ \E g \in {1} : CreateGroup(g)
  \/ \E g \in {1} : RemoveGroup(g)
  \/ \E g \in {1}, c \in CommandIds : SubmitCommand(g, c)
  \/ WriteTask
  \/ \E ok \in BOOLEAN : HandleCreateGroup(ok)
  \/ \E rmOk \in {TRUE}, ok \in {TRUE} : HandleRemoveGroup(rmOk, ok)
  \/ \E fnErr \in BOOLEAN : HandleProposal(fnErr)
  \/ \E batch \in Batches(EnvPipe) : RaftReady(batch)
  \/ WriteReady
  \/ \E order \in Perms(WritingGroupIds), cidOrder \in Perms(CommandIds) : WriteDone(order, cidOrder, {})
  \/ \E order \in Perms(NodeIds) : Tick(order)

Spec == Init /\ [][Next]_vars

\* SpecProp: the life of a proposal of one group across leader changes,
\* membership changes and the removal of the group; a batch carries one
\* update.
EnvProp ==
  [groups |-> {1}, weight |-> MaxPropBatchItems,
   bodies |-> {Body(EntryNormal, "", 0), Body(EntryNormal, "a", 0), Body(ConfChangeAddNode, "a", MaxNode)},
   softs |-> {Self},
   msgs |-> {},
   snaps |-> {}]

NextProp ==
  \/ \E g \in {1} : CreateGroup(g)
  \/ \E g \in {1} : RemoveGroup(g)
  \/ \E g \in {1}, c \in CommandIds : ChangeGroupMembership(g, c)
  \/ \E c \in callbacks, err \in {"nil", "error"} : Callback(c, err)
  \/ WriteTask
  \/ \E ok \in {TRUE} : HandleCreateGroup(ok)
  \/ \E rmOk \in {TRUE}, ok \in {TRUE} : HandleRemoveGroup(rmOk, ok)
  \/ \E fnErr \in BOOLEAN : HandleProposal(fnErr)
  \/ \E batch \in Batches(EnvProp) : RaftReady(batch)
  \/ WriteReady
  \/ \E order \in Perms(WritingGroupIds), cidOrder \in Perms(CommandIds) : WriteDone(order, cidOrder, {})
  \/ \E cidOrder \in Perms(CommandIds) : HandleCallback(cidOrder)

SpecProp == Init /\ [][NextProp]_vars

\* SpecHb: coalesced heartbeats over two groups and two peers.
EnvHb ==
  [groups |-> GroupIds, weight |-> MaxBatchItems,
   bodies |-> {},
   softs |-> {2},
   msgs |-> {Msg(MsgHeartbeat, 2), Msg(MsgHeartbeatResp, 2), Msg(MsgApp, MaxNode)},
   snaps |-> {}]

RequestsHb ==
  [type : {MsgHeartbeat, MsgHeartbeatResp}, from : {2, MaxNode}, group : {MaxUint64}]
  \cup [type : {MsgApp}, from : {2}, group : GroupIds]

NextHb ==
  \/ \E g \in GroupIds : RemoveGroup(g)
  \/ WriteTask
  \/ \E req \in RequestsHb, order \in Perms(GroupIds) : HandleRequest(req, TRUE, order)
  \/ \E rmOk \in {TRUE}, ok \in {TRUE} : HandleRemoveGroup(rmOk, ok)
  \/ \E batch \in Batches(EnvHb) : RaftReady(batch)
  \/ WriteReady
  \/ \E order \in Perms(WritingGroupIds), sendFails \in {{}} :
       WriteDone(order, <<"a">>, sendFails)
  \/ \E order \in Perms(NodeIds) : Tick(order)

SpecHb == Init /\ [][NextHb]_vars

\* SpecHistory: the pipeline of one group across its removal and
\* re-creation, with the history of the group recorded.
NextHistory ==
  \/ \E g \in {1} : CreateGroup(g)
  \/ \E g \in {1} : RemoveGroup(g)
  \/ WriteTask
  \/ \E ok \in {TRUE} : HandleCreateGroup(ok)
  \/ \E rmOk \in {TRUE}, ok \in {TRUE} : HandleRemoveGroup(rmOk, ok)
  \/ \E batch \in Batches(EnvPipe) : RaftReady(batch)
  \/ WriteReady
  \/ \E order \in Perms(WritingGroupIds), cidOrder \in Perms(CommandIds) : WriteDone(order, cidOrder, {})

SpecHistory == InitHistory /\ [][NextHistory]_vars

\* SpecEvents: the pipeline of one group with the bounded Events queue and
\* the application that consumes it.
NextEvents ==
  \/ \E g \in {1} : CreateGroup(g)
  \/ WriteTask
  \/ \E ok \in {TRUE} : HandleCreateGroup(ok)
  \/ \E batch \in Batches(EnvPipe) : RaftReady(batch)
  \/ WriteReady
  \/ \E order \in Perms(WritingGroupIds), cidOrder \in Perms(CommandIds) : WriteDone(order, cidOrder, {})
  \/ ConsumeEvent

SpecEvents == InitEvents /\ [][NextEvents]_vars

SpecStopper == Init /\ [][NextStopper]_vars

SpecScanner == Init /\ [][NextScanner]_vars

\* SpecScanner with the scheduling the Go runtime gives: a goroutine that
\* can take its next step takes it, the worker's as well as Stop()'s
SpecScannerFair ==
  /\ SpecScanner
  /\ WF_vars(ScanStartTask)
  /\ WF_vars(\E n \in 0..MaxRanges : ScanNext(n))
  /\ WF_vars(ScanCount)
  /\ WF_vars(ScanFinishTask)
  /\ WF_vars(ScanShouldStop)
  /\ WF_vars(StopDraining)
  /\ WF_vars(StopClose)
  /\ WF_vars(StopWait)
  /\ WF_vars(StopStopped)

\* SpecFan: inbound requests of every kind from every peer, two groups whose
\* leader is the local node or peer 2, group removal with a storage that
\* can fail.
EnvFan ==
  [groups |-> GroupIds, weight |-> 1,
   bodies |-> {},
   softs |-> {Self, 2},
   msgs |-> {Msg(MsgHeartbeat, 2)},
   snaps |-> {}]

RequestsFan ==
  [type : {MsgHeartbeat, MsgHeartbeatResp}, from : NodeIds, group : {1, MaxUint64}]
  \cup [type : {MsgApp}, from : {2}, group : GroupIds]

NextFan ==
  \/ \E g \in GroupIds : RemoveGroup(g)
  \/ WriteTask
  \/ \E req \in RequestsFan, ok \in BOOLEAN, order \in Perms(GroupIds) : HandleRequest(req, ok, order)
  \/ \E rmOk \in {TRUE}, ok \in BOOLEAN : HandleRemoveGroup(rmOk, ok)
  \/ \E batch \in Batches(EnvFan) : RaftReady(batch)
  \/ WriteReady
  \/ \E order \in Perms(WritingGroupIds) : WriteDone(order, <<"a">>, {})
  \/ \E order \in Perms(NodeIds) : Tick(order)

SpecFan == Init /\ [][NextFan]_vars

\* SpecCreate: creation and removal of groups over every stored ConfState.
NextCreate ==
  \/ \E g \in GroupIds : CreateGroup(g)
  \/ \E g \in GroupIds : RemoveGroup(g)
  \/ \E ok \in BOOLEAN : HandleCreateGroup(ok)
  \/ \E rmOk \in {TRUE}, ok \in {TRUE} : HandleRemoveGroup(rmOk, ok)

SpecCreate == InitCreate /\ [][NextCreate]_vars

\* SpecStop: group creation and removal around the shutdown of the loop.
NextStop ==
  \/ \E g \in GroupIds : CreateGroup(g)
  \/ \E g \in GroupIds : RemoveGroup(g)
  \/ \E ok \in BOOLEAN : HandleCreateGroup(ok)
  \/ \E rmOk \in BOOLEAN, ok \in {TRUE} : HandleRemoveGroup(rmOk, ok)
  \/ \E picks \in [1..(2 * OpChanCap) -> BOOLEAN] : Stop(picks)

SpecStop == Init /\ [][NextStop]_vars

\* SpecMember: membership changes of one group: AddNode, RemoveNode and
\* UpdateNode entries commit and the application acknowledges them.
EnvMember ==
  [groups |-> {1}, weight |-> MaxPropBatchItems,
   bodies |-> {Body(ConfChangeAddNode, "", MaxNode), Body(ConfChangeRemoveNode, "", MaxNode),
               Body(ConfChangeRemoveNode, "", 2), Body(ConfChangeUpdateNode, "", 2)},
   softs |-> {},
   msgs |-> {},
   snaps |-> {}]

NextMember ==
  \/ \E g \in {1} : CreateGroup(g)
  \/ \E c \in callbacks, err \in {"nil", "error"} : Callback(c, err)
  \/ WriteTask
  \/ \E ok \in {TRUE} : HandleCreateGroup(ok)
  \/ \E batch \in Batches(EnvMember) : RaftReady(batch)
  \/ WriteReady
  \/ \E order \in Perms(WritingGroupIds), cidOrder \in Perms(CommandIds) : WriteDone(order, cidOrder, {})
  \/ \E cidOrder \in Perms(CommandIds) : HandleCallback(cidOrder)

SpecMember == Init /\ [][NextMember]_vars

\* SpecSend: outbound messages of two groups, snapshots among them, over a
\* transport whose Send fails for some peers.
EnvSend ==
  [groups |-> GroupIds, weight |-> MaxBatchItems,
   bodies |-> {},
   softs |-> {},
   msgs |-> {Msg(MsgApp, 2), Msg(MsgSnap, 2), Msg(MsgSnap, MaxNode), Msg(MsgHeartbeat, MaxNode)},
   snaps |-> {}]

\* the sets of peers Transport.Send can fail for during one turn
SendFailures == SUBSET {2, MaxNode}

NextSend ==
  \/ \E g \in GroupIds : CreateGroup(g)
  \/ WriteTask
  \/ \E ok \in {TRUE} : HandleCreateGroup(ok)
  \/ \E batch \in Batches(EnvSend) : RaftReady(batch)
  \/ WriteReady
  \/ \E order \in Perms(WritingGroupIds), sendFails \in SendFailures :
       WriteDone(order, <<"a">>, sendFails)

SpecSend == Init /\ [][NextSend]_vars

\* ----------------------------------------------------------------- claims

\* what a step put on the event stream or handed to the transport for a batch
BatchOutput ==
  {i \in DOMAIN effects :
     \/ effects[i].k = "event"
     \/ effects[i].k = "send" /\ effects[i].g # MaxUint64}

\* the write task has acknowledged, on its out channel, the request built
\* from the batch being written
WriteAcked ==
  /\ writingGroups # <<>>
  /\ wtOut = <<DOMAIN writingGroups[1]>>

\* C1: no event of a committed entry of a batch reaches the event stream and
\* no message of the batch reaches the transport before the write task has
\* acknowledged the write request built from that batch.
C1_PersistBeforeApply == [][BatchOutput' # {} => WriteAcked]_vars

C1_Witness ==
  \E i, j \in BatchOutput :
    /\ effects[i].k = "event" /\ effects[i].x = "CommandCommitted"
    /\ effects[j].k = "send" /\ effects[j].g = effects[i].g
    /\ hardState[effects[i].g] >= effects[i].n

\* C2: a batch is read from Raft only when no batch is stashed and none is
\* being written, so a stashed batch and a batch in flight never coexist, the
\* write task holds at most one request, and at most one batch has been read
\* from Raft without Advance having been called for it.
C2_OneBatchInFlight ==
  /\ ~(readyGroups # <<>> /\ writingGroups # <<>>)
  /\ Len(wtIn) + Len(wtOut) <= 1
  /\ (wtIn # <<>> \/ wtOut # <<>>) => writingGroups # <<>>
  /\ raftBusy <= 1
  /\ raftBusy = 1 <=> (readyGroups # <<>> \/ writingGroups # <<>>)

C2_Witness == writingGroups # <<>> /\ wtIn # <<>> /\ raftBusy = 1 /\ hardState[1] > 0

\* C3: within one write-done step, every event and every completion signal
\* of a group precedes every message sent for that group, and Advance comes
\* after everything the step sent.
C3_EventsBeforeMessages ==
  /\ \A i, j \in DOMAIN effects :
       (/\ effects[i].k \in {"event", "signal"}
        /\ effects[j].k = "send"
        /\ effects[j].g = effects[i].g) => i < j
  /\ \A i \in DOMAIN effects : effects[i].k = "advance" => i = Len(effects)

C3_Witness ==
  /\ Len(effects) = 4
  /\ effects[1].k = "event"
  /\ effects[2].k = "signal"
  /\ effects[3].k = "send" /\ effects[3].g = effects[1].g
  /\ effects[4].k = "advance"

\* C9: CreateGroup for a group that already exists reports success and leaves
\* the group table, the node table and embedded Raft as they were.
C9_CreateGroupIdempotent ==
  [][(/\ loop = "running"
      /\ createGroupChan # <<>>
      /\ createGroupChan' = Tail(createGroupChan)
      /\ Head(createGroupChan) \in DOMAIN groups)
     => /\ groups' = groups
        /\ nodes' = nodes
        /\ raftIndex' = raftIndex /\ raftTerm' = raftTerm
        /\ effects' = <<Eff("createOp", Head(createGroupChan), 0, "nil", 0)>>]_vars

C9_Witness ==
  /\ effects = <<Eff("createOp", 1, 0, "nil", 0)>>
  /\ 1 \in DOMAIN groups
  /\ groups[1].leader # 0

\* C10: RemoveGroup for a group that is not in the group table reports success
\* and changes nothing.
C10_RemoveGroupIdempotent ==
  [][(/\ loop = "running"
      /\ removeGroupChan # <<>>
      /\ removeGroupChan' = Tail(removeGroupChan)
      /\ Head(removeGroupChan) \notin DOMAIN groups)
     => /\ groups' = groups
        /\ nodes' = nodes
        /\ effects' = <<Eff("removeOp", Head(removeGroupChan), 0, "nil", 0)>>]_vars

C10_Witness ==
  /\ effects = <<Eff("removeOp", 1, 0, "nil", 0)>>
  /\ 1 \notin DOMAIN groups
  /\ 2 \in DOMAIN nodes

\* C4: at most one value is ever written to the completion channel of a
\* proposal, whatever propose, commit, re-enqueue and removal steps occur.
C4_SignaledAtMostOnce == \A p \in DOMAIN chWrites : chWrites[p] <= 1

\* C5: the committedTerm of a group never decreases while the group is in
\* the group table.
C5_CommittedTermMonotone ==
  [][\A g \in DOMAIN groups \cap DOMAIN groups' :
       groups'[g].committedTerm >= groups[g].committedTerm]_vars

C5_Witness ==
  \E i \in DOMAIN effects :
    /\ effects[i].k = "event" /\ effects[i].x = "LeaderElection"
    /\ effects[i].t = MaxTerm
    /\ effects[i].g \in DOMAIN groups
    /\ groups[effects[i].g].committedTerm = MaxTerm
    /\ hardState[effects[i].g] = MaxIndex

\* the Heartbeat messages a step handed to the transport
HeartbeatSends ==
  {i \in DOMAIN effects : effects[i].k = "send" /\ effects[i].x = MsgHeartbeat}

\* the step was the tick that closes a heartbeat interval
CoalescerRan == effects # <<>> /\ effects[1].k = "tick" /\ ticks = 0

\* C6: the tick that closes a heartbeat interval sends exactly one Heartbeat
\* to every registered peer other than self, and no other step sends a
\* Heartbeat, however many groups exist and whatever their batches hold.
C6_OneHeartbeatPerPeer ==
  /\ CoalescerRan =>
       \A n \in DOMAIN nodes \ {Self} :
         Cardinality({i \in HeartbeatSends : effects[i].n = n}) = 1
  /\ Cardinality(HeartbeatSends) =
       IF CoalescerRan THEN Cardinality(DOMAIN nodes \ {Self}) ELSE 0

C6_Witness ==
  /\ CoalescerRan
  /\ Cardinality(HeartbeatSends) = 2
  /\ Cardinality(DOMAIN groups) = 2

\* C7: a write-done step sends at most one HeartbeatResp to a peer, however
\* many groups of the batch hold a heartbeat response for that peer.
C7_OneResponsePerPeer ==
  \A n \in NodeIds :
    Cardinality({i \in DOMAIN effects :
                   /\ effects[i].k = "send"
                   /\ effects[i].x = MsgHeartbeatResp
                   /\ effects[i].g # MaxUint64
                   /\ effects[i].n = n}) <= 1

\* C8: no coalesced heartbeat is sent to a peer whose set of group ids is
\* empty.
C8_NoHeartbeatToUnreferencedPeer ==
  \A i \in HeartbeatSends : nodes[effects[i].n] # {}

\* C11: an op the loop has not taken when it stops is answered with the
\* shutdown error, and no CreateGroup or RemoveGroup call is left waiting:
\* once the loop has stopped, no op sits unanswered on the op channels.
C11_NoCallerWedged ==
  loop = "stopped" => (createGroupChan = <<>> /\ removeGroupChan = <<>>)

Reachable ==
  {proposalChan[i] : i \in DOMAIN proposalChan}
  \cup UNION {{groups[g].pending[c] : c \in DOMAIN groups[g].pending} : g \in DOMAIN groups}
  \cup UNION {{th.obj[1][c] : c \in DOMAIN th.obj[1]} :
               th \in {x \in callbacks \cup {callbackChan[i] : i \in DOMAIN callbackChan} : x.obj # <<>>}}

\* C13: the removal of a group signals the completion channel of every
\* proposal pending in it, so no proposal is left that was never signaled
\* and that nothing can complete any more.
C13_PendingSignaledOnRemoval ==
  \A p \in DOMAIN props : chWrites[p] = 0 => p \in Reachable

\* C14: dispatching a proposal whose group is not in the group table writes
\* an error to its open completion channel, does not run the thunk and leaves
\* every pending map alone; with the group in the table the proposal is put in
\* the group's pending map under its command id and the thunk runs, and the
\* proposal stays pending whether or not the embedded propose fails.
C14_Propose ==
  [][(loop = "running" /\ proposalChan # <<>> /\ proposalChan' = Tail(proposalChan)) =>
       LET p == Head(proposalChan)
           g == props[p].groupID
       IN IF g \notin DOMAIN groups
          THEN /\ groups' = groups
               /\ \A i \in DOMAIN effects' : effects'[i].k # "fn"
               /\ (props[p].ch /\ chWrites[p] <= ChanBuf) =>
                    /\ effects' = <<Eff("signal", g, p, "error", 0)>>
                    /\ chWrites'[p] = chWrites[p] + 1
          ELSE /\ groups' = [groups EXCEPT ![g].pending = Put(@, props[p].commandID, p)]
               /\ chWrites' = chWrites
               /\ \E e \in {0, 1} : effects' = <<Eff("fn", g, p, props[p].commandID, e)>>]_vars

C14_Witness ==
  /\ Len(effects) = 1
  /\ effects[1].k = "fn" /\ effects[1].t = 1
  /\ effects[1].g \in DOMAIN groups
  /\ effects[1].x \in DOMAIN groups[effects[1].g].pending
  /\ groups[effects[1].g].pending[effects[1].x] = effects[1].n

\* the events of committed entries of group g among what a step did
EntryEvents(g) == {i \in DOMAIN effects : EntryEvent(effects[i], g)}

\* C15 (as stated): over the whole run, the entry indexes of the events of a
\* group are strictly increasing.
C15_IndexesIncreaseEver ==
  [][\A g \in DOMAIN history : \A i \in EntryEvents(g)' :
       /\ effects'[i].n > history[g].ever
       /\ \A j \in EntryEvents(g)' : j < i => effects'[j].n < effects'[i].n]_vars

\* C15 (amended): from the creation of a group to its removal, the entry
\* indexes of the events of the group are strictly increasing, within a
\* batch and from one batch to the next.
C15_IndexesIncrease ==
  [][\A g \in DOMAIN history : \A i \in EntryEvents(g)' :
       /\ effects'[i].n > history[g].inc
       /\ \A j \in EntryEvents(g)' : j < i => effects'[j].n < effects'[i].n]_vars

C15_Witness ==
  /\ ~history[1].removed
  /\ Len(effects) = 2
  /\ EntryEvent(effects[1], 1) /\ effects[1].n = 2
  /\ history[1].inc = 2

\* the events the step has put on MultiRaft.Events, in order
EventsSent(eff) == SelectSeq(eff, LAMBDA e : e.k = "event")

\* the committed entries of a Ready that processCommittedEntry announces
Announced(ready) ==
  {i \in DOMAIN ready.committed :
     ready.committed[i].type # EntryNormal \/ ready.committed[i].cid # ""}

\* C16: emitting an event never blocks the coordinator and never drops the
\* event: a step of the loop appends the events it emits to Events in order,
\* the loop panics only on an emit that finds Events full, it is never left
\* blocked, and a write response that is handled to the end has announced
\* every committed entry of its batch.
C16_EventAppendedOrPanic ==
  [][(Events.tracked /\ loop = "running" /\ Len(Events'.q) >= Len(Events.q)) =>
       /\ Events'.q = Events.q \o EventsSent(effects')
       /\ loop' # "blocked"
       /\ loop' = "panicked" =>
            /\ Len(Events'.q) = EventsCap
            /\ effects'[Len(effects')].k = "panic"
       /\ (writingGroups # <<>> /\ writingGroups' = <<>>) =>
            \A g \in DOMAIN writingGroups[1] \cap DOMAIN groups :
              Cardinality(EntryEvents(g)') = Cardinality(Announced(writingGroups[1][g]))]_vars

\* an emit has found Events full: the loop has panicked, nothing was dropped
C16_Witness ==
  /\ loop = "panicked"
  /\ Len(Events.q) = EventsCap
  /\ effects # <<>>
  /\ effects[Len(effects)].k = "panic"

\* C17: no handler run inside a loop turn blocks: the loop is never left
\* blocked inside a handler (on a send to the proposal channel or to a
\* completion channel).
C17_LoopNeverBlocked == loop # "blocked"

\* the messages of the step exchanged for a group of the table: sent by
\* sendMessage or received and stepped into Raft
Exchanged == {i \in DOMAIN effects : /\ effects[i].k \in {"send", "step"}
                                     /\ effects[i].g \in DOMAIN groups}

\* C18: the group-id set of a peer holds every group for which a message was
\* exchanged with the peer: after a step that sends a message of group g to
\* peer p or receives one from p, g is in the group-id set of p.
C18_ExchangedGroupsRegistered ==
  [][\A i \in Exchanged' :
       /\ effects'[i].n \in DOMAIN nodes'
       /\ effects'[i].g \in nodes'[effects'[i].n]]_vars

\* Stop() has moved the stopper into the draining phase
Draining == stopper.stopPc \in {"draining", "stopping", "closing", "returned"}

\* C19: once Stop() has moved the stopper into the draining phase, no call
\* to StartTask() returns true, whether it runs concurrently with Stop() or
\* after Stop() has returned.
C19_NoTaskWhileDraining ==
  [][\A t \in Tasks : (stopper.pc[t] = "lock" /\ stopper'.pc[t] = "task") => ~Draining]_vars

\* C20: in every reachable state, ShouldStop closed implies that the count
\* of outstanding tasks (started by a successful StartTask(), not yet
\* finished by FinishTask()) is zero.
C20_ClosedImpliesNoTask == stopper.stopper = "closed" => stopper.drain = 0

\* C21: the shutdown phases occur in order: a worker confirms with
\* SetStopped only once ShouldStop is closed; a closer is closed only once
\* ShouldStop is closed and every worker has confirmed, and the closers are
\* closed once each in the order they were added; IsStopped is closed only
\* once every closer has been closed.
C21_PhasesInOrder ==
  [][/\ stopper'.stop < stopper.stop => stopper.stopper = "closed"
     /\ stopper'.closed # stopper.closed =>
          /\ stopper.stopper = "closed"
          /\ stopper.stop = 0
          /\ stopper.stopped = "open"
          /\ stopper'.closed = SubSeq(stopper.closers, 1, Len(stopper.closed) + 1)
     /\ (stopper.stopped = "open" /\ stopper'.stopped = "closed") =>
          /\ stopper.stopper = "closed"
          /\ stopper.stop = 0
          /\ stopper.closed = stopper.closers]_vars

\* Stop() has gone through all phases with two closers to close
C21_Witness ==
  /\ stopper.stopped = "closed"
  /\ Len(stopper.closed) >= 2

\* what C22 asks of the arguments: node id non-zero, a Transport, the three
\* durations greater than zero
ConfigWanted(call) ==
  /\ call.nodeID # 0
  /\ call.config.Transport
  /\ call.config.ElectionTimeoutTicks > 0
  /\ call.config.HeartbeatIntervalTicks > 0
  /\ call.config.TickInterval > 0

\* C22: NewMultiRaft returns an error and constructs no coordinator unless
\* the node id is non-zero, a Transport is given and ElectionTimeoutTicks,
\* HeartbeatIntervalTicks and TickInterval are all greater than zero.
C22_InvalidConfigRejected ==
  (newMultiRaftCall.returned /\ ~ConfigWanted(newMultiRaftCall)) =>
    (~newMultiRaftCall.m /\ newMultiRaftCall.err # "nil")

\* an inbound coalesced heartbeat or heartbeat response from peer p
Coalesced(type, p) == [type |-> type, from |-> p, group |-> MaxUint64]

\* the groups the step has stepped a message of the given type into
Stepped(type) ==
  {effects[i].g : i \in {j \in DOMAIN effects : effects[j].k = "step" /\ effects[j].x = type}}

\* C23: an inbound coalesced heartbeat from a known peer p is stepped into
\* exactly the groups of p's group-id set whose recorded leader is p, p not
\* being the local node, and into no other group.
C23_HeartbeatFanout ==
  [][\A p \in DOMAIN nodes : \A order \in Perms(GroupIds) :
       HandleRequest(Coalesced(MsgHeartbeat, p), TRUE, order) =>
         Stepped(MsgHeartbeat)' =
           {g \in nodes[p] \cap DOMAIN groups : groups[g].leader = p /\ p # Self}]_vars

\* C24: an inbound heartbeat response from a known peer p (other than the
\* local node, which sends itself no heartbeat) is stepped into exactly the
\* groups of p's group-id set whose recorded leader is the local node; a
\* response from an unknown peer is stepped into no group and sends no
\* message.
C24_ResponseFanout ==
  [][\A p \in NodeIds \ {Self} : \A order \in Perms(GroupIds) :
       HandleRequest(Coalesced(MsgHeartbeatResp, p), TRUE, order) =>
         IF p \in DOMAIN nodes
         THEN Stepped(MsgHeartbeatResp)' =
                {g \in nodes[p] \cap DOMAIN groups : groups[g].leader = Self}
         ELSE effects' = <<>>]_vars

\* C25: an inbound heartbeat from a peer that is not in the peer registry
\* steps no group, sends exactly one HeartbeatResp with from = self and the
\* sentinel group id back to that peer, and leaves the peer registry and
\* the group table unchanged.
C25_UnknownPeerAnswered ==
  [][\A p \in NodeIds \ DOMAIN nodes : \A gid \in {1, MaxUint64} : \A order \in Perms(GroupIds) :
       HandleRequest([type |-> MsgHeartbeat, from |-> p, group |-> gid], TRUE, order) =>
         /\ effects' = <<Eff("send", MaxUint64, p, MsgHeartbeatResp, Self)>>
         /\ nodes' = nodes
         /\ groups' = groups]_vars

\* the answer to a heartbeat of the unknown peer MaxNode, with groups in the
\* table
C25_Witness ==
  /\ effects = <<Eff("send", MaxUint64, MaxNode, MsgHeartbeatResp, Self)>>
  /\ MaxNode \notin DOMAIN nodes
  /\ DOMAIN groups # {}

\* C26: every Heartbeat handed to the transport carries the sentinel group
\* id and from = self (the Heartbeat of a group's ready batch is never
\* sent), and the handling of an inbound heartbeat or heartbeat response
\* does not depend on the group id of the request and creates no group.
C26_HeartbeatsCoalesced ==
  /\ \A i \in HeartbeatSends : effects[i].g = MaxUint64 /\ effects[i].t = Self
  /\ Running =>
       \A type \in {MsgHeartbeat, MsgHeartbeatResp} : \A p \in NodeIds :
       \A ok \in BOOLEAN : \A order \in Perms(GroupIds) :
         LET named == handleRequest(St, [type |-> type, from |-> p, group |-> 1],
                                    InitialState(1, ok), InPipe, order)
         IN /\ named = handleRequest(St, Coalesced(type, p), InitialState(1, TRUE), InPipe, order)
            /\ named.groups = groups

\* the coalescer has sent a Heartbeat to peer 2 while the batch being written
\* holds a Heartbeat of a group for peer 2
C26_Witness ==
  /\ CoalescerRan
  /\ \E i \in HeartbeatSends : effects[i] = Eff("send", MaxUint64, 2, MsgHeartbeat, Self)
  /\ writingGroups # <<>>
  /\ \E g \in DOMAIN writingGroups[1] : writingGroups[1][g].msgs = <<Msg(MsgHeartbeat, 2)>>

\* the multiNode.Tick() calls of the step
RaftTicks == {i \in DOMAIN effects : effects[i].k = "tick"}

\* C27: a tick advances the embedded Raft timers exactly once and the
\* coalescer runs on exactly every HeartbeatIntervalTicks-th tick: the tick
\* counter goes back to 0 when it reaches HeartbeatIntervalTicks, stays in
\* [0, HeartbeatIntervalTicks) between turns, and no other step changes it,
\* advances the timers or sends a coalesced heartbeat.
C27_TickCounter ==
  [][/\ ticks' \in 0..(HeartbeatIntervalTicks - 1)
     /\ Cardinality(RaftTicks') <= 1
     /\ IF RaftTicks' # {}
        THEN /\ ticks' = (ticks + 1) % HeartbeatIntervalTicks
             /\ Cardinality(HeartbeatSends') =
                  IF ticks + 1 = HeartbeatIntervalTicks
                  THEN Cardinality(DOMAIN nodes \ {Self}) ELSE 0
        ELSE /\ ticks' = ticks
             /\ HeartbeatSends' = {}]_vars

\* a tick inside the heartbeat interval: the timers advanced, no heartbeat
\* went out although there are peers
C27_Witness ==
  /\ effects = <<Eff("tick", 0, 0, "", 0)>>
  /\ ticks = HeartbeatIntervalTicks - 1
  /\ DOMAIN nodes \ {Self} # {}

\* C28: an inbound message that is neither a heartbeat nor a heartbeat
\* response and names a group absent from the group table creates the group
\* and then steps the message into it; if the creation fails the message
\* is not stepped, the group table is unchanged and the loop goes on.
C28_LazyCreation ==
  [][\A g \in GroupIds \ DOMAIN groups : \A ok \in BOOLEAN : \A order \in Perms(GroupIds) :
       HandleRequest([type |-> MsgApp, from |-> 2, group |-> g], ok, order) =>
         IF ok
         THEN /\ effects'[1] = Eff("raftCreateGroup", g, 0, "", 0)
              /\ effects'[Len(effects')] = Eff("step", g, 2, MsgApp, 0)
              /\ Cardinality({i \in DOMAIN effects' : effects'[i].k = "step"}) = 1
              /\ DOMAIN groups' = DOMAIN groups \cup {g}
              /\ loop' = "running"
         ELSE /\ effects' = <<>>
              /\ groups' = groups
              /\ nodes' = nodes
              /\ loop' = "running"]_vars

\* group 2 has been created for a message and the message stepped into it,
\* next to group 1
C28_Witness ==
  /\ effects = <<Eff("raftCreateGroup", 2, 0, "", 0), Eff("step", 2, 2, MsgApp, 0)>>
  /\ DOMAIN groups = {1, 2}

\* the step has campaigned for group g
Campaigned(g) == \E i \in DOMAIN effects : effects[i] = Eff("campaign", g, 0, "", 0)

\* C29: creating a group registers the group in the group-id set of every
\* member of the initial ConfState, and campaigns at once if and only if
\* the initial ConfState has exactly one member and that member is the
\* local node.
C29_CreateRegistersAndCampaigns ==
  [][\A g \in GroupIds \ DOMAIN groups :
       (createGroupChan # <<>> /\ Head(createGroupChan) = g /\ HandleCreateGroup(TRUE)) =>
         /\ g \in DOMAIN groups'
         /\ \A n \in confState[g] : n \in DOMAIN nodes' /\ g \in nodes'[n]
         /\ Campaigned(g)' <=> confState[g] = {Self}]_vars

\* group 1 was created over a ConfState of the local node alone and has
\* campaigned
C29_Witness ==
  /\ Campaigned(1)
  /\ confState[1] = {Self}
  /\ Self \in DOMAIN nodes
  /\ 1 \in nodes[Self]

\* C30 for the call of maybeSendLeaderEvent on group g with the Ready ready
\* in state st, the pending map iterated in cidOrder
LeaderEventAsStated(st, g, ready, cidOrder) ==
  LET r == maybeSendLeaderEvent(st, g, ready, cidOrder)
      old == st.groups[g]
      new == r.groups[g]
      last == ready.committed[Len(ready.committed)]
      advanced == Len(ready.committed) > 0 /\ last.term # old.committedTerm /\ new.leader # 0
      queued == PendingInOrder(old.pending, cidOrder)
  IN /\ new.leader = IF ready.soft # NoSoft THEN ready.soft ELSE old.leader
     /\ new.pending = old.pending
     /\ IF advanced
        THEN /\ r.eff = st.eff \o <<Eff("event", g, new.leader, "LeaderElection", last.term)>>
             /\ new.committedTerm = last.term
             /\ IF r.loop = "running"
                THEN r.proposalChan = st.proposalChan \o queued
                ELSE /\ r.loop = "blocked"
                     /\ Len(r.proposalChan) = ChanCap
                     /\ r.proposalChan =
                          st.proposalChan \o SubSeq(queued, 1, ChanCap - Len(st.proposalChan))
        ELSE /\ r.eff = st.eff
             /\ new.committedTerm = old.committedTerm
             /\ r.proposalChan = st.proposalChan
             /\ r.loop = "running"

\* C30: in a write-done step for group g the recorded leader becomes the
\* SoftState's leader whenever the batch has a SoftState; a LeaderElection
\* event with the recorded leader and the new term is emitted, committedTerm
\* is updated and every proposal of g's pending map is re-enqueued (the send
\* waiting when the proposal channel is full) exactly when the term of the
\* batch's last committed entry differs from committedTerm and the recorded
\* leader is non-zero; otherwise no event is emitted and committedTerm stays.
C30_LeaderEvent ==
  (Running /\ writingGroups # <<>>) =>
    \A g \in DOMAIN writingGroups[1] \cap DOMAIN groups : \A cidOrder \in Perms(CommandIds) :
      LET st == processEntries(St, g, writingGroups[1][g].committed)
      IN st.loop = "running" => LeaderEventAsStated(st, g, writingGroups[1][g], cidOrder)

\* a write-done step has announced leader 1 for term 2 and put the pending
\* proposal back on the proposal channel
C30_Witness ==
  /\ \E i \in DOMAIN effects : effects[i] = Eff("event", 1, Self, "LeaderElection", 2)
  /\ effects[Len(effects)].k = "advance"
  /\ 1 \in DOMAIN groups
  /\ groups[1].pending # EmptyMap
  /\ groups[1].committedTerm = 2
  /\ proposalChan # <<>>

\* the conf changes the step has applied to embedded Raft
Applied == {i \in DOMAIN effects' : effects'[i].k = "applyConfChange"}

\* the step is a turn of the loop that takes a thunk off the callback channel
ConsumesThunk == Running /\ callbackChan # <<>> /\ callbackChan' = Tail(callbackChan)

\* C31: a conf change is applied to embedded Raft only in a loop turn that
\* takes the continuation's thunk off the callback channel, and the
\* application's call of the continuation changes neither the group table
\* nor the peer registry; after a turn that runs the thunk of an AddNode(p)
\* for group g acknowledged without error, g is in p's group-id set, the conf
\* change has been applied to embedded Raft exactly once and every proposal
\* in g's pending map is among those the turn has put on the proposal channel.
C31_ConfChangeInLoopTurn ==
  [][/\ Applied # {} => ConsumesThunk
     /\ (\E c \in callbacks : callbacks' = callbacks \ {c} /\ Len(callbackChan') = Len(callbackChan) + 1) =>
          (groups' = groups /\ nodes' = nodes /\ effects' = <<>>)
     /\ (ConsumesThunk /\ loop' = "running" /\ Head(callbackChan).err = "nil"
           /\ Head(callbackChan).type = ConfChangeAddNode) =>
          LET th == Head(callbackChan)
              queued == SubSeq(proposalChan', Len(proposalChan) + 1, Len(proposalChan'))
          IN /\ th.node \in DOMAIN nodes'
             /\ th.g \in nodes'[th.node]
             /\ Cardinality(Applied) = 1
             /\ \A i \in Applied : effects'[i] = Eff("applyConfChange", th.g, th.node, ConfChangeAddNode, 0)
             /\ th.g \in DOMAIN groups' =>
                  \A c \in DOMAIN groups'[th.g].pending :
                    \E i \in DOMAIN queued : queued[i] = groups'[th.g].pending[c]]_vars

\* C32: after a turn that runs the thunk of a RemoveNode(p) for group g
\* acknowledged without error, g is not in p's group-id set.
C32_RemoveNodeUnregisters ==
  [][(ConsumesThunk /\ loop' = "running" /\ Head(callbackChan).err = "nil"
        /\ Head(callbackChan).type = ConfChangeRemoveNode) =>
       LET th == Head(callbackChan)
       IN th.node \in DOMAIN nodes' => th.g \notin nodes'[th.node]]_vars

\* what C33 states for the messages msgs of group g: the send of every
\* message that is not a heartbeat, followed by ReportUnreachable exactly
\* when the send failed and, for a snapshot, by one ReportSnapshot
RECURSIVE SendReports(_, _, _)
SendReports(g, msgs, sendFails) ==
  IF msgs = <<>> THEN <<>>
  ELSE LET m == Head(msgs)
           failed == m.to \in sendFails
       IN (IF m.type = MsgHeartbeat THEN <<>>
           ELSE <<Eff("send", g, m.to, m.type, 0)>>
                \o (IF failed THEN <<Eff("reportUnreachable", g, m.to, "", 0)>> ELSE <<>>)
                \o (IF m.type = MsgSnap
                    THEN <<Eff("reportSnapshot", g, m.to,
                               IF failed THEN "SnapshotFailure" ELSE "SnapshotFinish", 0)>>
                    ELSE <<>>))
          \o SendReports(g, Tail(msgs), sendFails)

RECURSIVE BatchReports(_, _, _)
BatchReports(batch, order, sendFails) ==
  IF order = <<>> THEN <<>>
  ELSE SendReports(Head(order), batch[Head(order)].msgs, sendFails)
         \o BatchReports(batch, Tail(order), sendFails)

IsReport(e) == e.k \in {"send", "reportUnreachable", "reportSnapshot"}

\* C33: in a write-done turn, whichever sends fail, every message of every
\* group of the batch that is not a heartbeat is sent, ReportUnreachable
\* follows a send exactly when that send failed, and every snapshot message
\* is followed by exactly one ReportSnapshot, SnapshotFailure when its send
\* failed and SnapshotFinish when it did not; the turn runs to its end.
C33_SendFailuresReported ==
  (Running /\ WriteDoneArmed /\ writingGroups # <<>>) =>
    \A order \in Perms(DOMAIN writingGroups[1]) : \A sendFails \in SendFailures :
      LET r == handleWriteResponse(St, writingGroups[1], order, <<"a">>, sendFails)
      IN /\ r.loop = "running"
         /\ SelectSeq(r.eff, IsReport) = BatchReports(writingGroups[1], order, sendFails)

\* a write-done turn has reported a failed snapshot and has gone on to send
\* a message of the other group
C33_Witness ==
  \E i, j \in DOMAIN effects :
    /\ i < j
    /\ effects[i].k = "reportSnapshot" /\ effects[i].x = "SnapshotFailure"
    /\ effects[i - 1].k = "reportUnreachable"
    /\ effects[j].k = "send" /\ effects[j].g # effects[i].g
    /\ effects[Len(effects)].k = "advance"

\* C34: a committed normal entry without data leaves everything as it was
\* when the loop over the committed entries of a write-done turn reaches it:
\* no event, no write to a completion channel, the pending map unchanged.
C34_NoopIgnored ==
  (Running /\ writingGroups # <<>>) =>
    \A g \in DOMAIN writingGroups[1] \cap DOMAIN groups :
      LET committed == writingGroups[1][g].committed
      IN \A i \in DOMAIN committed :
           LET before == processEntries(St, g, SubSeq(committed, 1, i - 1))
               after == finishEntry(before, g, committed[i])
           IN (committed[i].type = EntryNormal /\ committed[i].cid = "" /\ before.loop = "running") =>
                /\ after.eff = before.eff
                /\ after.chWrites = before.chWrites
                /\ after.groups[g].pending = before.groups[g].pending
                /\ after = before

\* a write-done turn has processed a no-op entry, the first entry of group
\* 1, while a proposal was pending: nothing but Advance happened
C34_Witness ==
  /\ effects = <<Eff("advance", 0, 0, "", 0)>>
  /\ 1 \in DOMAIN groups
  /\ groups[1].pending # EmptyMap
  /\ groups[1].leader = 0
  /\ raftIndex[1] = 1
  /\ hardState[1] = 1
  /\ readyGroups = <<>> /\ writingGroups = <<>>
  /\ \A p \in DOMAIN chWrites : chWrites[p] = 0

\* C35: a proposal whose commit has been signaled (its channel field is nil
\* from then on) is in no pending map, and no later step invokes its
\* propose thunk.
C35_FinishedProposalNotProposedAgain ==
  [][\A p \in DOMAIN props' :
       ~props'[p].ch =>
         /\ \A g \in DOMAIN groups' : \A c \in DOMAIN groups'[g].pending : groups'[g].pending[c] # p
         /\ (p \in DOMAIN props /\ ~props[p].ch) =>
              \A i \in DOMAIN effects' : ~(effects'[i].k = "fn" /\ effects'[i].n = p)]_vars

\* C36: every group id in a peer's group-id set is a key of the group
\* table, and every node of the stored configuration of a group of the
\* table is a key of the peer registry.
C36_RegistryIntegrity ==
  /\ \A n \in DOMAIN nodes : nodes[n] \subseteq DOMAIN groups
  /\ \A g \in DOMAIN groups : confState[g] \subseteq DOMAIN nodes

\* the values the step has written to the completion channel of a
\* remove-group op
RemoveOpWrites == {i \in DOMAIN effects' : effects'[i].k = "removeOp"}

\* C37: a turn that takes a remove-group op off its channel writes exactly
\* one value to the op's completion channel, and when that value is an
\* error the group table and the peer registry are as before the turn.
C37_RemoveOpAnsweredOnce ==
  [][(Running /\ removeGroupChan # <<>> /\ removeGroupChan' = Tail(removeGroupChan)) =>
       /\ Cardinality(RemoveOpWrites) = 1
       /\ \A i \in RemoveOpWrites :
            effects'[i].x = "error" => (groups' = groups /\ nodes' = nodes)]_vars

\* C38: a Stop() call that has begun returns.
C38_StopTerminates == (stopper.stopPc = "locked") ~> (stopper.stopPc = "returned")

\* the stats of a pass that has visited the ranges 1..n
RECURSIVE PassStats(_)
PassStats(n) ==
  IF n = 0 THEN emptyStats
  ELSE [RangeCount |-> PassStats(n - 1).RangeCount + 1, MVCC |-> PassStats(n - 1).MVCC + RangeStats(n)]

\* the step is the one in which the iterator's Next returns nil
Exhausted == \E i \in DOMAIN effects' : effects'[i] = Eff("iterNext", 0, 0, "nil", 0)

\* C39: the scan count never decreases; the step in which Next returns nil
\* resets the iterator and makes the stats of the pass just ended the value
\* of Stats(), which changes in no other step, and the worker's next step
\* is the one increment of the count, which changes in no other step;
\* WaitForScanCompletion returns the count of that moment, which is greater
\* than the count at the time of its call.
C39_ScanCount ==
  [][/\ Count' >= Count
     /\ Exhausted =>
          /\ scanner.pc = "next" /\ scanner'.pc = "count"
          /\ scanner'.pos = 0
          /\ Stats' = PassStats(scanner.pos)
     /\ Stats' # Stats => Exhausted
     /\ (scanner.pc = "count" /\ scanner'.pc # "count") => Count' = Count + 1
     /\ Count' # Count => (scanner.pc = "count" /\ Count' = Count + 1)
     /\ \A w \in Waiters :
          (scanner.waiters[w].pc = "waiting" /\ scanner'.waiters[w].pc = "returned") =>
            /\ scanner'.waiters[w].ret = Count
            /\ scanner'.waiters[w].ret > scanner.waiters[w].initalValue]_vars

\* a pass over all ranges has ended: its stats are published, the count is
\* one and the caller of WaitForScanCompletion, who called at count zero,
\* has returned with one
C39_Witness ==
  /\ Count = 1
  /\ Stats = PassStats(MaxRanges)
  /\ scanner.pos = 0
  /\ \E w \in Waiters :
       /\ scanner.waiters[w].pc = "returned"
       /\ scanner.waiters[w].initalValue = 0
       /\ scanner.waiters[w].ret = 1

\* the scan loop's worker holds a task: StartTask() has returned true and
\* FinishTask() has not been called yet
InTask == scanner.pc \in {"next", "count", "finish"}

\* the step visits a range or offers one to the queues
Visits ==
  \/ \E i \in DOMAIN effects' : effects'[i].k \in {"iterNext", "maybeAdd"}
  \/ scanner'.pos # scanner.pos
  \/ ~(scanner'.queues \subseteq scanner.queues)

\* C40: the scan loop calls the iterator's Next and offers a range to the
\* queues only while it holds a task; StartTask() does not return true to
\* it once Stop() has set draining; the stopper's task count is one while
\* the loop holds a task and zero otherwise, so every StartTask() that
\* returned true has exactly one FinishTask(); and once ShouldStop is closed
\* the loop exits.
C40_ScanWithinTask ==
  /\ [][/\ Visits => (InTask /\ stopper.drain = 1)
        /\ (scanner.pc = "lock" /\ scanner'.pc = "next") => stopper.draining = 0
        /\ stopper'.drain = (IF InTask' THEN 1 ELSE 0)]_vars
  /\ (stopper.stopper = "closed" /\ scanner.pc # "new") ~> (scanner.pc = "done")

====
